---- MODULE Spec2Model ----
(***************************************************************************)
(* Model of zucker's synchronous query View (src/zucker/model/view.py):    *)
(* lazy slicing over a remote collection, the index -> offset arithmetic,  *)
(* the count request, the per-filter record cache and iteration; and of    *)
(* the asynchronous client's bulk() coordinator (src/zucker/client/base.py)*)
(* with the actions it runs.                                               *)
(***************************************************************************)
EXTENDS Integers, Sequences, FiniteSets, TLC

\* ------------------------------------------------------------------ bounds
\* Largest number of records the remote collection holds.
MaxRecords == 3
\* Largest number of view objects the caller creates (the root included).
MaxViews == 3
\* Largest number of actions passed to bulk().
MaxActions == 2
\* Largest number of steps (requests, unrelated waits) of an action.
MaxSteps == 2

VARIABLES
    remote,   \* the server's collection: the sequence of record ids, by offset
    views,    \* the caller's view objects, keyed by the expression that built them
    caches,   \* the record cache dicts, by allocation order; views hold an index
    tasks,                \* bulk(): action_tasks, each with where its action stands
    next_key,             \* bulk(): next_key
    request_definitions,  \* bulk(): the dict of queued requests, in insertion order
    responses,            \* bulk(): the dict of responses not yet taken
    events,               \* bulk(): the keys whose request_event is set
    counting_event,       \* bulk(): counting_event
    coord,                \* bulk(): where the coordinator stands, what it holds
    wire,                 \* the physical requests made through raw_request, in order
    authenticated,        \* whether the client holds a valid token
    rec,       \* a record object: its _original_data and _updated_data
    server,    \* the server's stored records of the module, by id
    calls,     \* the calls made through client.request for the record, in order
    outcome,   \* the last operation on the record and the exception it raised
    assigned,  \* the fields assigned since the last save or refresh
    heap,       \* the mutable mappings and lists, by address
    given,      \* the combinator and parts a FilterSet was constructed with
    filterset,  \* that FilterSet: its combinator and its _parts
    built,      \* the addresses of the mappings build_filter() has returned
    rendered    \* what build_filter() returned right after the construction

bulkVars == <<tasks, next_key, request_definitions, responses, events,
              counting_event, coord, wire, authenticated>>

recVars == <<rec, server, calls, outcome, assigned>>

fltVars == <<heap, given, filterset, built, rendered>>

vars == <<remote, views, caches, tasks, next_key, request_definitions, responses,
          events, counting_event, coord, wire, authenticated, recVars, fltVars>>

\* ------------------------------------------------------- optional integers
\* Python's None for an int is the empty tuple, an int k is <<k>>.
None == <<>>
Some(k) == <<k>>

\* The one element of a set of one (a value worked out once and named).
The(S) == CHOOSE x \in S : TRUE

\* ------------------------------------------------------------ Python range
\* range(start, stop, step); View._range = None is the range with step 0,
\* which Python cannot build.
NoRange == [start |-> 0, stop |-> 0, step |-> 0]
\* View._size = None.
NoSize == -1
\* _index_to_offset returning None.
NoOffset == -1

Range(start, stop, step) == [start |-> start, stop |-> stop, step |-> step]

\* len(range)
RangeLen(r) ==
    IF r.step > 0
    THEN IF r.start >= r.stop THEN 0
         ELSE ((r.stop - r.start - 1) \div r.step) + 1
    ELSE IF r.step < 0
    THEN IF r.stop >= r.start THEN 0
         ELSE ((r.start - r.stop - 1) \div (-r.step)) + 1
    ELSE 0

\* range[i] for 0 <= i < len(range)
RangeItem(r, i) == r.start + i * r.step

\* slice.indices(length), for a slice whose step is not 0
SliceIndices(s, length) ==
    LET step  == IF s.step = None THEN 1 ELSE s.step[1]
        neg   == step < 0
        lower == IF neg THEN -1 ELSE 0
        upper == IF neg THEN length - 1 ELSE length
        Clip(x) == IF x < 0
                   THEN IF x + length < lower THEN lower ELSE x + length
                   ELSE IF x > upper THEN upper ELSE x
    IN  [start |-> IF s.start = None THEN (IF neg THEN upper ELSE lower)
                   ELSE Clip(s.start[1]),
         stop  |-> IF s.stop = None THEN (IF neg THEN lower ELSE upper)
                   ELSE Clip(s.stop[1]),
         step  |-> step]

\* range slicing that takes the slice's step for the step of the result.
RangeGetSliceOwnStep(r, s) ==
    LET sub == SliceIndices(s, RangeLen(r))
    IN  Range(RangeItem(r, sub.start), RangeItem(r, sub.stop), sub.step)

\* range[slice], for a slice whose step is not 0
RangeGetSlice(r, s) ==
    LET sub == SliceIndices(s, RangeLen(r))
    IN  Range(RangeItem(r, sub.start), RangeItem(r, sub.stop), r.step * sub.step)

\* ------------------------------------------------------------------ slices
Slice(start, stop, step) == [start |-> start, stop |-> stop, step |-> step]

SliceReverse == Slice(None, None, Some(-1))

\* The slices the caller takes.
Slices ==
    { SliceReverse,                              \* [::-1]
      Slice(Some(1), Some(5), None),             \* [1:5]   clamped at the end
      Slice(Some(2), Some(1), None),             \* [2:1]   start after stop
      Slice(Some(5), Some(2), None),             \* [5:2]   the same, past the end
      Slice(Some(1), Some(2), Some(-1)),         \* [1:2:-1] empty, negative step
      Slice(Some(2), Some(5), Some(-1)),         \* [2:5:-1] the same, past the end
      Slice(Some(2), Some(0), Some(-1)),         \* [2:0:-1]
      Slice(Some(-2), None, None),               \* [-2:]
      Slice(None, None, Some(2)),                \* [::2]
      Slice(None, None, Some(0)) }               \* [::0]   rejected on resolution

\* ----------------------------------------------------------------- filters
Preds == {"odd", "small"}

\* str(id) of the records, one character per element, and the keys the caller
\* looks up: the ids that may exist, one with a slash, one with a space.
Digits == <<"1", "2", "3", "4", "5">>
RecordKey(rid) == <<Digits[rid]>>
Keys ==
    {RecordKey(rid) : rid \in 1..(MaxRecords + 1)}
        \cup {<<"1", "/", "2">>, <<"1", " ", "2">>}

\* Whether the record with id rid satisfies the predicate; a predicate that
\* is neither "odd" nor "small" is id == <that text>.
Matches(pred, rid) ==
    IF pred = "odd" THEN rid % 2 = 1
    ELSE IF pred = "small" THEN rid <= 2
    ELSE rid \in 1..Len(Digits) /\ pred = Digits[rid]

\* View._filter = None.
NoFilter == [oid |-> 0, parts |-> <<>>]

\* The BasicFilter objects the caller holds: one per predicate.
BasicFilterOid(pred) == IF pred = "odd" THEN 1 ELSE 2
BasicFilter(pred) == [oid |-> BasicFilterOid(pred), parts |-> <<pred>>]

\* self._module.id == key: a new ValuesFilter object on the id field. A key
\* of several characters is the id of no record here.
IdEquals(key, oid) ==
    [oid |-> oid, parts |-> <<IF Len(key) = 1 THEN key[1] ELSE "">>]

\* Filter objects define no __eq__: != compares identity.
FilterNe(f, g) == f.oid # g.oid

\* FilterSet(Combinator.AND, current, mapping): None is dropped, a filter is
\* rendered or merged into the parts, the mapping is appended.
FilterSetAnd(oid, current, pred) ==
    [oid |-> oid, parts |-> Append(current.parts, pred)]

\* ------------------------------------------------------------------ server
FilterAccepts(filter, rid) ==
    \A k \in 1..Len(filter.parts) : Matches(filter.parts[k], rid)

ServerSelect(filter) == SelectSeq(remote, LAMBDA rid : FilterAccepts(filter, rid))

\* GET <base>/count
ServerCount(filter) == Len(ServerSelect(filter))

\* GET <base>?max_num=1&offset=<offset>: the "records" list
ServerRecords(filter, offset) ==
    LET matching == ServerSelect(filter)
    IN  IF offset < Len(matching) THEN <<matching[offset + 1]>> ELSE <<>>

CountRequest(filter) == [url |-> "count", filter |-> filter, offset |-> NoOffset]
GetRequest(filter, offset) == [url |-> "get", filter |-> filter, offset |-> offset]

\* -------------------------------------------------------------------- view
\* A view object: View.__init__'s fields. cache is the index in caches of the
\* dict the view's _record_cache refers to.
NewView(cache) ==
    [filter |-> NoFilter, range |-> NoRange, pending |-> <<>>,
     size |-> NoSize, cache |-> cache]

\* _clone giving every clone a cache of its own.
CloneViewOwnCache(self, filter, pending, fresh) ==
    [filter |-> filter, range |-> self.range, pending |-> pending,
     size |-> IF FilterNe(filter, self.filter) THEN NoSize ELSE self.size,
     cache |-> fresh]

\* View._clone around a body that leaves the clone with `filter` and `pending`;
\* fresh is the dict the clone's constructor made.
CloneView(self, filter, pending, fresh) ==
    IF FilterNe(filter, self.filter)
    THEN [filter |-> filter, range |-> self.range, pending |-> pending,
          size |-> NoSize, cache |-> fresh]
    ELSE [filter |-> filter, range |-> self.range, pending |-> pending,
          size |-> self.size, cache |-> self.cache]

\* View.__getitem__(slice): the sub-view.
SliceView(self, s, fresh) ==
    CloneView(self, self.filter, Append(self.pending, s), fresh)

\* __getitem__(slice) with a clone that shares the pending list: the append
\* reaches the view that was sliced.
SliceResultAliased(self, s, fresh) ==
    [view |-> SliceView(self, s, fresh),
     self |-> [self EXCEPT !.pending = Append(self.pending, s)],
     reqs |-> <<>>]

\* View.__getitem__(slice) as a call: the sub-view it returns, the view it was
\* called on (the clone appends to its own copy of the pending list) and the
\* requests it made, which are none (nothing is resolved before it is asked).
SliceResult(self, s, fresh) ==
    [view |-> SliceView(self, s, fresh), self |-> self, reqs |-> <<>>]

\* View.filtered(*filters) with one argument: a filter object replaces the
\* filter, a mapping is AND-ed to it in a new FilterSet (identity oid).
FilteredView(self, kind, pred, oid, fresh) ==
    CloneView(self,
              IF kind = "object" THEN BasicFilter(pred)
              ELSE FilterSetAnd(oid, self.filter, pred),
              self.pending, fresh)

\* SyncView._fetch_size
FetchSize(view) == [view EXCEPT !.size = ServerCount(view.filter)]

\* The while loop of _calculate_range: pop(0), then slice the range. A slice
\* with step 0 raises ValueError after it was popped.
RECURSIVE ApplyPending(_, _)
ApplyPending(range, pending) ==
    IF pending = <<>>
    THEN [range |-> range, pending |-> <<>>, raised |-> ""]
    ELSE IF Head(pending).step = Some(0)
    THEN [range |-> range, pending |-> Tail(pending), raised |-> "ValueError"]
    ELSE ApplyPending(RangeGetSlice(range, Head(pending)), Tail(pending))

\* _calculate_range working the window out without keeping it or the count.
CalculateRangeUnkept(view) ==
    LET needCount == view.range = NoRange /\ view.size = NoSize
        sized     == IF needCount THEN FetchSize(view) ELSE view
        base      == IF view.range = NoRange THEN Range(0, sized.size, 1) ELSE view.range
        applied   == ApplyPending(base, view.pending)
    IN  [view |-> view,
         reqs |-> IF needCount THEN <<CountRequest(view.filter)>> ELSE <<>>,
         raised |-> applied.raised]

\* SyncView._calculate_range
CalculateRange(view) ==
    LET needCount == view.range = NoRange /\ view.size = NoSize
        sized     == IF needCount THEN FetchSize(view) ELSE view
        base      == IF view.range = NoRange THEN Range(0, sized.size, 1)
                     ELSE view.range
        applied   == ApplyPending(base, view.pending)
    IN  [view   |-> [sized EXCEPT !.range = applied.range,
                                  !.pending = applied.pending],
         reqs   |-> IF needCount THEN <<CountRequest(view.filter)>> ELSE <<>>,
         raised |-> applied.raised]

\* _index_to_offset with the end of the window taken one index too far.
IndexToOffsetInclusive(range, index) ==
    IF index < 0 THEN NoOffset
    ELSE IF index > RangeLen(range) THEN NoOffset
    ELSE RangeItem(range, index)

\* View._index_to_offset
IndexToOffset(range, index) ==
    IF index < 0 THEN NoOffset
    ELSE IF index >= RangeLen(range) THEN NoOffset
    ELSE RangeItem(range, index)

\* ------------------------------------------------------------ record cache
\* A cached None (no record at the offset).
NoneRec == [obj |-> <<>>, id |-> 0]

\* The identity of the record object the module constructor builds next for
\* the slot `offset` of dict `cid`: <<dict, offset, n>> for the n-th object
\* built for that slot, so that no two constructions give the same object.
FreshObj(cid, cache, offset) ==
    IF offset \in DOMAIN cache /\ cache[offset] # NoneRec
    THEN <<cid, offset, cache[offset].obj[3] + 1>>
    ELSE <<cid, offset, 1>>

\* View._prepare_get_by_offset: the cached record, or a request to make.
PrepareGetByOffset(cache, offset) ==
    IF offset \in DOMAIN cache /\ cache[offset] # NoneRec
    THEN [hit |-> TRUE, record |-> cache[offset]]
    ELSE [hit |-> FALSE, record |-> NoneRec]

\* View._finalize_get_by_offset on a well-formed response of at most 1 record.
FinalizeGetByOffset(cache, offset, records, obj) ==
    LET record == IF records = <<>> THEN NoneRec
                  ELSE [obj |-> obj, id |-> records[1]]
    IN  [cache |-> (offset :> record) @@ cache, record |-> record]

\* SyncView._get_by_offset on the view whose dict, the cid-th, holds `cache`
GetByOffset(filter, cid, cache, offset) ==
    LET prep == PrepareGetByOffset(cache, offset)
        fin  == FinalizeGetByOffset(cache, offset, ServerRecords(filter, offset),
                                    FreshObj(cid, cache, offset))
    IN  IF prep.hit
        THEN [cache |-> cache, record |-> prep.record, reqs |-> <<>>]
        ELSE [cache |-> fin.cache, record |-> fin.record,
              reqs |-> <<GetRequest(filter, offset)>>]

\* SyncView.__len__
LenResult(view) ==
    LET calc == CalculateRange(view)
    IN  [view |-> calc.view, reqs |-> calc.reqs, raised |-> calc.raised,
         length |-> IF calc.raised = "" THEN RangeLen(calc.view.range) ELSE -1]

\* SyncView.get_by_index
GetByIndexResult(view, cache, index) ==
    LET calc   == CalculateRange(view)
        offset == IndexToOffset(calc.view.range, index)
        got    == GetByOffset(view.filter, view.cache, cache, offset)
    IN  IF calc.raised # ""
        THEN [view |-> calc.view, cache |-> cache, reqs |-> calc.reqs,
              raised |-> calc.raised, records |-> <<>>]
        ELSE IF offset = NoOffset
        THEN [view |-> calc.view, cache |-> cache, reqs |-> calc.reqs,
              raised |-> "IndexError", records |-> <<>>]
        ELSE IF got.record = NoneRec
        THEN [view |-> calc.view, cache |-> got.cache, reqs |-> calc.reqs \o got.reqs,
              raised |-> "IndexError", records |-> <<>>]
        ELSE [view |-> calc.view, cache |-> got.cache, reqs |-> calc.reqs \o got.reqs,
              raised |-> "", records |-> <<got.record>>]

\* _prepare_get_by_id accepting a key with a space.
PrepareGetByIdSlashOnly(self, key, oid, fresh) ==
    IF \E k \in 1..Len(key) : key[k] = "/"
    THEN [raised |-> "ValueError", view |-> self]
    ELSE [raised |-> "",
          view |-> CloneView(self, IdEquals(key, oid), self.pending, fresh)]

\* View._prepare_get_by_id: the key is checked, then filtered(id == key) with
\* its single filter object.
PrepareGetById(self, key, oid, fresh) ==
    IF \E k \in 1..Len(key) : key[k] \in {"/", " "}
    THEN [raised |-> "ValueError", view |-> self]
    ELSE [raised |-> "",
          view |-> CloneView(self, IdEquals(key, oid), self.pending, fresh)]

\* SyncView.get_by_id: index 0 of the view _prepare_get_by_id returns, which
\* has a cache of its own and is dropped afterwards.
GetByIdResult(self, key, oid, fresh) ==
    LET prep == PrepareGetById(self, key, oid, fresh)
        r    == GetByIndexResult(prep.view, <<>>, 0)
    IN  IF prep.raised # ""
        THEN [self |-> self, reqs |-> <<>>, raised |-> prep.raised, records |-> <<>>]
        ELSE [self |-> self, reqs |-> r.reqs,
              raised |-> IF r.raised = "IndexError" THEN "KeyError" ELSE r.raised,
              records |-> r.records]

\* The while loop of __iter__ ending at the first offset without a record.
RECURSIVE IterateFromUntilMissing(_, _, _, _, _)
IterateFromUntilMissing(filter, cid, range, k, cache) ==
    IF k >= RangeLen(range)
    THEN [cache |-> cache, reqs |-> <<>>, records |-> <<>>]
    ELSE LET got  == GetByOffset(filter, cid, cache, RangeItem(range, k))
             rest == IterateFromUntilMissing(filter, cid, range, k + 1, got.cache)
         IN  IF got.record = NoneRec
             THEN [cache |-> got.cache, reqs |-> got.reqs, records |-> <<>>]
             ELSE [cache |-> rest.cache,
                   reqs |-> got.reqs \o rest.reqs,
                   records |-> <<got.record>> \o rest.records]

\* The while loop of SyncView.__iter__, from the k-th offset of the range on.
RECURSIVE IterateFrom(_, _, _, _, _)
IterateFrom(filter, cid, range, k, cache) ==
    IF k >= RangeLen(range)
    THEN [cache |-> cache, reqs |-> <<>>, records |-> <<>>]
    ELSE LET got  == GetByOffset(filter, cid, cache, RangeItem(range, k))
             rest == IterateFrom(filter, cid, range, k + 1, got.cache)
         IN  [cache |-> rest.cache,
              reqs |-> got.reqs \o rest.reqs,
              records |-> IF got.record = NoneRec THEN rest.records
                          ELSE <<got.record>> \o rest.records]

\* __iter__ walking the offsets of the window upwards whatever its step.
IterateResultAscending(view, cache) ==
    LET calc  == CalculateRange(view)
        range == calc.view.range
        up    == IF range.step < 0
                 THEN Range(RangeItem(range, RangeLen(range) - 1),
                            range.start + 1, 0 - range.step)
                 ELSE range
        walk  == IterateFrom(view.filter, view.cache, up, 0, cache)
    IN  IF calc.raised # ""
        THEN [view |-> calc.view, cache |-> cache, reqs |-> calc.reqs,
              raised |-> calc.raised, records |-> <<>>]
        ELSE [view |-> calc.view, cache |-> walk.cache, reqs |-> calc.reqs \o walk.reqs,
              raised |-> "", records |-> walk.records]

\* list(view): SyncView.__iter__ run to its end
IterateResult(view, cache) ==
    LET calc == CalculateRange(view)
        walk == IterateFrom(view.filter, view.cache, calc.view.range, 0, cache)
    IN  IF calc.raised # ""
        THEN [view |-> calc.view, cache |-> cache, reqs |-> calc.reqs,
              raised |-> calc.raised, records |-> <<>>]
        ELSE [view |-> calc.view, cache |-> walk.cache, reqs |-> calc.reqs \o walk.reqs,
              raised |-> "", records |-> walk.records]

\* ------------------------------------------------------ AsyncViewIterator
\* The number of records one __anext__ asks for when its queue is empty.
BatchSize == 6

\* AsyncViewIterator._get_or_none: view[index] with IndexError turned into None
GetOrNone(view, cache, index) ==
    The({[view |-> r.view, cache |-> r.cache, reqs |-> r.reqs,
          raised |-> IF r.raised = "IndexError" THEN "" ELSE r.raised,
          record |-> IF r.raised = "" THEN r.records[1] ELSE NoneRec]
         : r \in {GetByIndexResult(view, cache, index)}})

\* The bulk() call of __anext__: _get_or_none(k) .. _get_or_none(5) counted
\* from current_index, the results in the order of the arguments.
RECURSIVE NewRecords(_, _, _, _)
NewRecords(view, cache, current_index, k) ==
    IF k >= BatchSize
    THEN [view |-> view, cache |-> cache, reqs |-> <<>>, raised |-> "",
          queue |-> <<>>]
    ELSE The({IF got.raised # ""
              THEN [view |-> got.view, cache |-> got.cache, reqs |-> got.reqs,
                    raised |-> got.raised, queue |-> <<>>]
              ELSE The({[view |-> rest.view, cache |-> rest.cache,
                         reqs |-> got.reqs \o rest.reqs, raised |-> rest.raised,
                         queue |-> <<got.record>> \o rest.queue]
                        : rest \in {NewRecords(got.view, got.cache,
                                               current_index, k + 1)}})
              : got \in {GetOrNone(view, cache, current_index + k)}})

\* The records __anext__ pops off a queue before it meets a None.
RECURSIVE PoppedUntilNone(_)
PoppedUntilNone(queue) ==
    IF queue = <<>> THEN <<>>
    ELSE IF queue[1] = NoneRec THEN <<>>
    ELSE <<queue[1]>> \o PoppedUntilNone(Tail(queue))

\* AsyncViewIterator.__anext__ called until it raises StopAsyncIteration.
RECURSIVE AnextFrom(_, _, _)
AnextFrom(view, cache, current_index) ==
    The({IF new.raised # ""
         THEN [view |-> new.view, cache |-> new.cache, reqs |-> new.reqs,
               raised |-> new.raised, records |-> <<>>]
         ELSE The({IF Len(popped) < Len(new.queue)
                   THEN [view |-> new.view, cache |-> new.cache, reqs |-> new.reqs,
                         raised |-> "", records |-> popped]
                   ELSE The({[view |-> rest.view, cache |-> rest.cache,
                              reqs |-> new.reqs \o rest.reqs, raised |-> rest.raised,
                              records |-> popped \o rest.records]
                             : rest \in {AnextFrom(new.view, new.cache,
                                                   current_index + BatchSize)}})
                   : popped \in {PoppedUntilNone(new.queue)}})
         : new \in {NewRecords(view, cache, current_index, 0)}})

\* [record async for record in view]
AsyncIterateResult(view, cache) == AnextFrom(view, cache, 0)

\* __reversed__ iterating the view itself.
ReversedResultForward(view, cache) ==
    IterateResult(view, cache)

\* list(reversed(view)): SyncView.__reversed__ iterates the clone self[::-1],
\* which no one else holds.
ReversedResult(view, cache) ==
    IterateResult(SliceView(view, SliceReverse, view.cache), cache)

\* ----------------------------------------------------------- the caller
\* A view is named by the expression that built it from Module.find(): the
\* sequence of slicing and filtering steps.
SliceStep(s) == [kind |-> "slice", slice |-> s, pred |-> ""]
FilterStep(kind, pred) == [kind |-> kind, slice |-> Slice(None, None, None), pred |-> pred]

\* The integer indexes the caller asks for.
Indexes == (0 - MaxRecords) .. MaxRecords

\* The filters the caller passes to filtered(): a BasicFilter object, a mapping.
FilterArgs == {<<"object", "odd">>, <<"mapping", "small">>}

\* No FilterSet was constructed.
NoFilters ==
    /\ heap = <<>>
    /\ given = [combinator |-> "$and", parts |-> <<>>]
    /\ filterset = [combinator |-> "$and", parts |-> <<>>]
    /\ built = {}
    /\ rendered = <<>>

\* No record object was created and no call was made for one.
NoRecord ==
    /\ rec = [original |-> <<>>, updated |-> <<>>]
    /\ server = <<>>
    /\ calls = <<>>
    /\ outcome = [op |-> "none", raised |-> "none", n |-> 0]
    /\ assigned = <<>>

\* SyncModule.find(): one view over the whole collection, nothing fetched.
NoBulk ==
    /\ tasks = <<>>
    /\ next_key = 0
    /\ request_definitions = <<>>
    /\ responses = {}
    /\ events = {}
    /\ counting_event = FALSE
    /\ coord = [pc |-> "idle", keys |-> <<>>, result |-> <<>>]
    /\ wire = <<>>
    /\ authenticated = TRUE

Init ==
    /\ remote \in {[i \in 1..n |-> i] : n \in 0..MaxRecords}
    /\ views = (<<>> :> NewView(1))
    /\ caches = << <<>> >>
    /\ NoBulk
    /\ NoRecord
    /\ NoFilters

\* The caller keeps a derived view under a new name; self is the view it was
\* derived from, after the call.
Derive(path, step, child, self) ==
    /\ Cardinality(DOMAIN views) < MaxViews
    /\ Append(path, step) \notin DOMAIN views
    /\ views' = (Append(path, step) :> child) @@ [views EXCEPT ![path] = self]
    /\ caches' = IF child.cache > Len(caches) THEN Append(caches, <<>>) ELSE caches

\* view[a:b:c]
SliceOp(path, s) ==
    /\ path \in DOMAIN views
    /\ LET r == SliceResult(views[path], s, Len(caches) + 1)
       IN  Derive(path, SliceStep(s), r.view, r.self)
    /\ UNCHANGED <<recVars, fltVars, remote, bulkVars>>

\* view.filtered(f); a FilterSet built here is a new object.
FilteredOp(path, kind, pred) ==
    /\ path \in DOMAIN views
    /\ Derive(path, FilterStep(kind, pred),
              FilteredView(views[path], kind, pred,
                           Cardinality(Preds) + Cardinality(DOMAIN views),
                           Len(caches) + 1),
              views[path])
    /\ UNCHANGED <<recVars, fltVars, remote, bulkVars>>

\* len(view)
LenOp(path) ==
    /\ path \in DOMAIN views
    /\ views' = [views EXCEPT ![path] = LenResult(views[path]).view]
    /\ UNCHANGED <<recVars, fltVars, remote, caches, bulkVars>>

\* view[index]
GetByIndexOp(path, index) ==
    /\ path \in DOMAIN views
    /\ LET r == GetByIndexResult(views[path], caches[views[path].cache], index)
       IN  /\ views' = [views EXCEPT ![path] = r.view]
           /\ caches' = [caches EXCEPT ![views[path].cache] = r.cache]
    /\ UNCHANGED <<recVars, fltVars, remote, bulkVars>>

\* view[key]
GetByIdOp(path, key) ==
    /\ path \in DOMAIN views
    /\ LET r == GetByIdResult(views[path], key,
                              Cardinality(Preds) + Cardinality(DOMAIN views),
                              Len(caches) + 1)
       IN  views' = [views EXCEPT ![path] = r.self]
    /\ UNCHANGED <<recVars, fltVars, remote, caches, bulkVars>>

\* list(view)
IterateOp(path) ==
    /\ path \in DOMAIN views
    /\ LET r == IterateResult(views[path], caches[views[path].cache])
       IN  /\ views' = [views EXCEPT ![path] = r.view]
           /\ caches' = [caches EXCEPT ![views[path].cache] = r.cache]
    /\ UNCHANGED <<recVars, fltVars, remote, bulkVars>>

\* [record async for record in view]
AsyncIterateOp(path) ==
    /\ path \in DOMAIN views
    /\ \E r \in {AsyncIterateResult(views[path], caches[views[path].cache])} :
           /\ views' = [views EXCEPT ![path] = r.view]
           /\ caches' = [caches EXCEPT ![views[path].cache] = r.cache]
    /\ UNCHANGED <<recVars, fltVars, remote, bulkVars>>

\* list(reversed(view)): the view itself is left as it was.
ReversedOp(path) ==
    /\ path \in DOMAIN views
    /\ LET r == ReversedResult(views[path], caches[views[path].cache])
       IN  caches' = [caches EXCEPT ![views[path].cache] = r.cache]
    /\ UNCHANGED <<recVars, fltVars, remote, views, bulkVars>>

\* Someone else deletes the last record of the collection.
ServerDelete ==
    /\ remote # <<>>
    /\ remote' = SubSeq(remote, 1, Len(remote) - 1)
    /\ UNCHANGED <<recVars, fltVars, views, caches, bulkVars>>

Paths == DOMAIN views

Next ==
    \/ \E path \in Paths, s \in Slices : SliceOp(path, s)
    \/ \E path \in Paths, f \in FilterArgs : FilteredOp(path, f[1], f[2])
    \/ \E path \in Paths : LenOp(path)
    \/ \E path \in Paths, index \in Indexes : GetByIndexOp(path, index)
    \/ \E path \in Paths, key \in Keys : GetByIdOp(path, key)
    \/ \E path \in Paths : IterateOp(path)
    \/ \E path \in Paths : ReversedOp(path)

\* The collection does not change while the caller works.
Spec == Init /\ [][Next]_vars

\* The collection shrinks under the caller, who slices, indexes and iterates.
ChurnSlices == {SliceReverse, Slice(Some(1), Some(5), None)}

NextChurn ==
    \/ ServerDelete
    \/ \E path \in Paths, s \in ChurnSlices : SliceOp(path, s)
    \/ \E path \in Paths : LenOp(path)
    \/ \E path \in Paths, index \in Indexes : GetByIndexOp(path, index)
    \/ \E path \in Paths : IterateOp(path)
    \/ \E path \in Paths : AsyncIterateOp(path)

SpecChurn == Init /\ [][NextChurn]_vars

\* =================================================================== claims
\* What the caller sees is read off the result of an operation, evaluated on
\* every view of every reachable state.

CacheOf(path) == caches[views[path].cache]
Ids(records) == [k \in 1..Len(records) |-> records[k].id]
Reverse(seq) == [k \in 1..Len(seq) |-> seq[Len(seq) + 1 - k]]
CountRequests(reqs) == Len(SelectSeq(reqs, LAMBDA r : r.url = "count"))
GetOffsets(reqs) ==
    LET gets == SelectSeq(reqs, LAMBDA r : r.url = "get")
    IN  [k \in 1..Len(gets) |-> gets[k].offset]

\* The offsets of a window, in window order.
Window(range) == [k \in 1..RangeLen(range) |-> RangeItem(range, k - 1)]

\* The view has its window and the count behind it is the collection's.
ResolvedAgainstCollection(view) ==
    /\ view.range # NoRange
    /\ view.pending = <<>>
    /\ view.size = ServerCount(view.filter)

\* Python's seq[a:b:c], position by position: the positions between the
\* clamped bounds that are a whole number of steps from the first.
NthSmallest(S, k) == CHOOSE x \in S : Cardinality({y \in S : y < x}) = k - 1
RefPositions(s, n) ==
    LET step  == IF s.step = None THEN 1 ELSE s.step[1]
        lo    == IF step > 0 THEN 0 ELSE -1
        hi    == IF step > 0 THEN n ELSE n - 1
        Norm(x)  == IF x < 0 THEN x + n ELSE x
        Clamp(x) == IF Norm(x) < lo THEN lo ELSE IF Norm(x) > hi THEN hi ELSE Norm(x)
        a     == IF s.start = None THEN (IF step > 0 THEN lo ELSE hi) ELSE Clamp(s.start[1])
        b     == IF s.stop = None THEN (IF step > 0 THEN hi ELSE lo) ELSE Clamp(s.stop[1])
    IN  IF step > 0
        THEN {k \in 0..(n - 1) : k >= a /\ k < b /\ (k - a) % step = 0}
        ELSE {k \in 0..(n - 1) : k <= a /\ k > b /\ (a - k) % (0 - step) = 0}
RefSlice(seq, s) ==
    LET pos == RefPositions(s, Len(seq))
        m   == Cardinality(pos)
    IN  IF s.step # None /\ s.step[1] < 0
        THEN [k \in 1..m |-> seq[NthSmallest(pos, m + 1 - k) + 1]]
        ELSE [k \in 1..m |-> seq[NthSmallest(pos, k) + 1]]

\* range(0, n) sliced by the slicing steps of a path, one after the other.
RECURSIVE RefChain(_, _)
RefChain(seq, path) ==
    IF path = <<>> THEN seq
    ELSE IF Head(path).kind = "slice"
    THEN RefChain(RefSlice(seq, Head(path).slice), Tail(path))
    ELSE RefChain(seq, Tail(path))
ValidSlices(path) ==
    \A k \in 1..Len(path) : path[k].kind = "slice" => path[k].slice.step # Some(0)

\* C1: on a view resolved against its collection, view[i] for 0 <= i < len(view)
\* returns the record stored at remote offset W[i], W being the view's window,
\* and view[i] for i >= len(view) raises IndexError.
C1_IndexReturnsWindowRecord ==
    \A path \in Paths : ResolvedAgainstCollection(views[path]) =>
        \A i \in 0..MaxRecords :
            LET view     == views[path]
                r        == GetByIndexResult(view, CacheOf(path), i)
                matching == ServerSelect(view.filter)
            IN  IF i < RangeLen(view.range)
                THEN /\ r.raised = ""
                     /\ Len(r.records) = 1
                     /\ RangeItem(view.range, i) \in 0..(Len(matching) - 1)
                     /\ r.records[1].id = matching[RangeItem(view.range, i) + 1]
                ELSE r.raised = "IndexError" /\ r.records = <<>>

\* C1 witness: a sliced view with a descending window of two or more offsets
\* was resolved and its second record fetched.
C1_Witness ==
    \E path \in Paths :
        /\ path # <<>>
        /\ ResolvedAgainstCollection(views[path])
        /\ views[path].range.step < 0
        /\ RangeLen(views[path].range) >= 2
        /\ RangeItem(views[path].range, 1) \in DOMAIN CacheOf(path)
        /\ CacheOf(path)[RangeItem(views[path].range, 1)] # NoneRec

\* C2: the window of a view built by a chain of valid slices is range(0, n)
\* sliced by each of them in turn as Python slices a list: view[a:b:c][j] is
\* the record at that offset, [5:2] and [2:5:-1] are empty, [::-1] is the whole
\* collection reversed.
C2_SlicesCompose ==
    \A path \in Paths :
        LET view == views[path]
            len  == LenResult(view)
            n    == ServerCount(view.filter)
            ref  == RefChain([k \in 1..n |-> k - 1], path)
            matching == ServerSelect(view.filter)
        IN  (ValidSlices(path) /\ len.view.size = n) =>
                /\ len.raised = ""
                /\ Window(len.view.range) = ref
                /\ len.length = Len(ref)
                /\ \A j \in 0..MaxRecords :
                       LET r == GetByIndexResult(view, CacheOf(path), j)
                       IN  IF j < Len(ref)
                           THEN Ids(r.records) = <<matching[ref[j + 1] + 1]>>
                           ELSE r.raised = "IndexError"
                /\ path = <<SliceStep(Slice(Some(5), Some(2), None))>> => len.length = 0
                /\ path = <<SliceStep(Slice(Some(2), Some(5), Some(-1)))>> => len.length = 0
                /\ path = <<SliceStep(SliceReverse)>> =>
                       Ids(IterateResult(view, CacheOf(path)).records) = Reverse(remote)

\* C2 witness: a slice of a slice, the inner one reversing, resolved to a
\* window that is neither empty nor the whole collection.
C2_Witness ==
    \E path \in Paths :
        /\ Len(path) = 2
        /\ path[1] = SliceStep(SliceReverse)
        /\ path[2].kind = "slice"
        /\ ResolvedAgainstCollection(views[path])
        /\ RangeLen(views[path].range) \in 1..(Len(remote) - 1)

\* C3: slicing a view makes no request and leaves the sliced view's window,
\* pending slices, count and record cache as they were, whether or not the
\* count is known yet and whatever the signs of the bounds and the step.
C3_SliceIsLazy ==
    [][\A path \in Paths, s \in Slices :
           SliceOp(path, s) =>
               /\ SliceResult(views[path], s, Len(caches) + 1).reqs = <<>>
               /\ views'[path] = views[path]
               /\ \A other \in Paths : views'[other] = views[other]
               /\ \A cid \in 1..Len(caches) : caches'[cid] = caches[cid]
               /\ remote' = remote]_vars

\* C3 witness: a view whose count is not known yet was sliced with a negative
\* start, and the slice is still pending.
C3_Witness ==
    \E path \in Paths :
        LET child == Append(path, SliceStep(Slice(Some(-2), None, None)))
        IN  /\ child \in Paths
            /\ views[path].size = NoSize
            /\ views[path].range = NoRange
            /\ views[child].pending # <<>>

\* C4: iterating a view requests and yields the records at the offsets of its
\* window in window order, upwards for a positive step and downwards for a
\* negative one; on three records view[2:0:-1] yields offsets 2, 1 and
\* view[1:5] yields offsets 1, 2 only.
C4_IterationOrder ==
    \A path \in Paths :
        LET view      == views[path]
            cache     == CacheOf(path)
            r         == IterateResult(view, cache)
            W         == Window(r.view.range)
            matching  == ServerSelect(view.filter)
            stored    == SelectSeq(W, LAMBDA o : o < Len(matching))
            asked     == GetOffsets(r.reqs)
            ids       == Ids(r.records)
        IN  r.raised = "" =>
                /\ ids = [k \in 1..Len(stored) |-> matching[stored[k] + 1]]
                /\ asked = SelectSeq(W, LAMBDA o : \E k \in 1..Len(asked) : asked[k] = o)
                /\ \A k \in 1..Len(W) : W[k] \notin DOMAIN cache =>
                       \E l \in 1..Len(asked) : asked[l] = W[k]
                /\ \A k, l \in 1..Len(ids) :
                       k < l => IF r.view.range.step > 0 THEN ids[k] < ids[l]
                                ELSE ids[k] > ids[l]
                /\ (path = <<SliceStep(Slice(Some(2), Some(0), Some(-1)))>>
                        /\ Len(remote) = 3) => ids = <<3, 2>>
                /\ (path = <<SliceStep(Slice(Some(1), Some(5), None))>>
                        /\ Len(remote) = 3) => ids = <<2, 3>>

\* C4 witness: view[2:0:-1] on three records was iterated: both its records
\* are in its cache.
C4_Witness ==
    LET path == <<SliceStep(Slice(Some(2), Some(0), Some(-1)))>>
    IN  /\ path \in Paths
        /\ Len(remote) = 3
        /\ views[path].range = Range(2, 0, -1)
        /\ DOMAIN CacheOf(path) = {1, 2}

\* C5: reversed(view) yields the records that iterating the view yields, in
\* the opposite order; it is the iteration of view[::-1].
C5_ReversedIsReverse ==
    \A path \in Paths :
        LET view  == views[path]
            cache == CacheOf(path)
            it    == IterateResult(view, cache)
            rv    == ReversedResult(view, cache)
            after == ReversedResult(it.view, it.cache)
        IN  /\ rv.raised = it.raised
            /\ it.raised = "" =>
                   /\ Ids(rv.records) = Reverse(Ids(it.records))
                   /\ after.records = Reverse(it.records)
                   /\ rv.records =
                          IterateResult(SliceView(view, SliceReverse, view.cache),
                                        cache).records

\* C5 witness: the only view there is was never resolved, yet its cache holds
\* two records: they came from reversed(view).
C5_Witness ==
    /\ Paths = {<<>>}
    /\ views[<<>>].range = NoRange
    /\ Cardinality(DOMAIN caches[1]) >= 2

\* C6: integer indexing counts negative indices from the end: on a view of
\* length n, view[-k] for 1 <= k <= n returns the record that view[n-k] returns.
C6_NegativeIndexFromEnd ==
    \A path \in Paths : ResolvedAgainstCollection(views[path]) =>
        \A k \in 1..MaxRecords :
            LET view == views[path]
                n    == RangeLen(view.range)
                neg  == GetByIndexResult(view, CacheOf(path), 0 - k)
                pos  == GetByIndexResult(view, CacheOf(path), n - k)
            IN  k <= n => /\ neg.raised = ""
                          /\ Ids(neg.records) = Ids(pos.records)

\* The operations of C7 on a view, as the results they give.
OpResults(view, cache) ==
    {[view |-> r.view, reqs |-> r.reqs, raised |-> r.raised] :
         r \in {LenResult(view), IterateResult(view, cache)}
               \cup {GetByIndexResult(view, cache, i) : i \in Indexes}}

\* C7: a len, integer-index or iteration operation asks for the count at most
\* once and leaves the view with a window; on a view that has its window no
\* such operation asks for the count; len(view) is the size of the window, the
\* number of indexes from 0 up that have an offset.
C7_CountAtMostOnce ==
    \A path \in Paths :
        LET view == views[path]
            len  == LenResult(view)
        IN  /\ \A r \in OpResults(view, CacheOf(path)) :
                   /\ CountRequests(r.reqs) <= 1
                   /\ r.view.range # NoRange
                   /\ view.range # NoRange =>
                          /\ CountRequests(r.reqs) = 0
                          /\ r.view.size = view.size
            /\ len.raised = "" =>
                   /\ len.length = Len(Window(len.view.range))
                   /\ \A i \in 0..(MaxRecords + 1) :
                          i < len.length <=> IndexToOffset(len.view.range, i) # NoOffset

\* C7 witness: a sliced view asked for its count once: it has the count and a
\* window smaller than it.
C7_Witness ==
    \E path \in Paths :
        /\ path # <<>>
        /\ views[path].range # NoRange
        /\ views[path].size = Len(remote)
        /\ RangeLen(views[path].range) \in 1..(views[path].size - 1)
        /\ \A other \in Paths \ {path} : views[other].range = NoRange

\* C8: a view made by filtered() with a changed filter from a resolved view
\* starts unresolved, with an empty cache of its own, and its length comes from
\* a count asked for under the new filter.
C8_FilteredStartsUnresolved ==
    \A path \in Paths, f \in FilterArgs :
        LET view  == views[path]
            child == FilteredView(view, f[1], f[2],
                                  Cardinality(Preds) + Cardinality(DOMAIN views),
                                  Len(caches) + 1)
            len   == LenResult(child)
        IN  (view.range # NoRange /\ FilterNe(child.filter, view.filter)) =>
                /\ child.range = NoRange
                /\ child.size = NoSize
                /\ child.cache = Len(caches) + 1
                /\ len.reqs = <<CountRequest(child.filter)>>
                /\ len.raised = "" /\ child.pending = <<>> =>
                       len.length = ServerCount(child.filter)

\* A view was made from another by slicing alone, or is that view.
SlicedFrom(path, from) ==
    /\ Len(from) <= Len(path)
    /\ SubSeq(path, 1, Len(from)) = from
    /\ \A k \in (Len(from) + 1)..Len(path) : path[k].kind = "slice"

\* C9: views made from one another by slicing share one record cache keyed by
\* offset: a record fetched at offset o through one of them is the object each
\* of them returns for offset o, with no further request for it.
C9_SlicesShareCache ==
    \A from \in Paths, path \in Paths : SlicedFrom(path, from) =>
        /\ views[path].cache = views[from].cache
        /\ views[path].filter = views[from].filter
        /\ \A o \in DOMAIN CacheOf(from) : CacheOf(from)[o] # NoneRec =>
               /\ \A i \in Indexes :
                      LET r == GetByIndexResult(views[path], CacheOf(path), i)
                          W == Window(r.view.range)
                      IN  (r.raised # "ValueError" /\ i \in 0..(Len(W) - 1)
                               /\ W[i + 1] = o) =>
                              /\ r.records = <<CacheOf(from)[o]>>
                              /\ GetOffsets(r.reqs) = <<>>
               /\ LET it == IterateResult(views[path], CacheOf(path))
                      W  == Window(it.view.range)
                  IN  it.raised = "" =>
                          /\ \A k \in 1..Len(it.reqs) : it.reqs[k].offset # o
                          /\ (\E k \in 1..Len(W) : W[k] = o) =>
                                 \E k \in 1..Len(it.records) :
                                     it.records[k] = CacheOf(from)[o]

\* C9 witness: a record was fetched through a view; a slice of that view whose
\* window holds the record's offset has not been resolved yet.
C9_Witness ==
    \E from \in Paths, path \in Paths :
        /\ path # from
        /\ SlicedFrom(path, from)
        /\ views[from].range # NoRange
        /\ views[path].pending # <<>>
        /\ \E o \in DOMAIN CacheOf(from) :
               /\ CacheOf(from)[o] # NoneRec
               /\ \E k \in 1..RangeLen(LenResult(views[path]).view.range) :
                      RangeItem(LenResult(views[path]).view.range, k - 1) = o

\* C10: once a fetch at offset o found no record, a later access to offset o
\* through the view reports not found and makes no request.
C10_NotFoundIsCached ==
    \A path \in Paths :
        \A o \in DOMAIN CacheOf(path) : CacheOf(path)[o] = NoneRec =>
            /\ \A i \in 0..MaxRecords :
                   LET r == GetByIndexResult(views[path], CacheOf(path), i)
                       W == Window(r.view.range)
                   IN  (r.raised # "ValueError" /\ i < Len(W) /\ W[i + 1] = o) =>
                           /\ r.raised = "IndexError"
                           /\ GetOffsets(r.reqs) = <<>>
            /\ LET it == IterateResult(views[path], CacheOf(path))
               IN  \A k \in 1..Len(it.reqs) : it.reqs[k].offset # o

\* view[key] as the caller of a state makes it.
GetById(path, key) ==
    GetByIdResult(views[path], key,
                  Cardinality(Preds) + Cardinality(DOMAIN views), Len(caches) + 1)
ValidKey(key) == \A k \in 1..Len(key) : key[k] \notin {"/", " "}

\* The ids of the records of the view's filter that have the key as their id.
MatchingKey(view, key) ==
    {rid \in {ServerSelect(view.filter)[k] : k \in 1..ServerCount(view.filter)} :
         RecordKey(rid) = key}

\* C11: view[key] finds the record by id whatever the window of the view: a
\* record of the view with that id is returned, and KeyError is raised only
\* when no record matches.
C11_GetByIdIgnoresWindow ==
    \A path \in Paths, key \in Keys :
        LET r     == GetById(path, key)
            found == MatchingKey(views[path], key)
        IN  (ValidKey(key) /\ r.raised # "ValueError") =>
                /\ \A rid \in found : r.raised = "" /\ Ids(r.records) = <<rid>>
                /\ r.raised = "KeyError" => found = {}

\* C12: a key with a slash or a space raises ValueError before any request
\* and leaves the view as it was.
C12_InvalidKeyRejected ==
    /\ \A path \in Paths, key \in Keys :
           LET r == GetById(path, key)
           IN  ~ValidKey(key) =>
                   /\ r.raised = "ValueError"
                   /\ r.reqs = <<>>
                   /\ r.records = <<>>
                   /\ r.self = views[path]
    /\ \E key \in Keys : \E k \in 1..Len(key) : key[k] = "/"
    /\ \E key \in Keys : \E k \in 1..Len(key) : key[k] = " "

\* C12 witness: a sliced view that is not resolved yet, on a collection with
\* records, is asked for a key with a space and raises.
C12_Witness ==
    \E path \in Paths :
        /\ path # <<>>
        /\ views[path].pending # <<>>
        /\ remote # <<>>
        /\ GetById(path, <<"1", " ", "2">>).raised = "ValueError"

\* C13: filtered() never drops the filter the view has: the records the new
\* view's filter accepts are those the old filter and the predicate accept,
\* also for a single filter object.
C13_FilteredKeepsFilter ==
    \A path \in Paths, f \in FilterArgs :
        LET view  == views[path]
            child == FilteredView(view, f[1], f[2],
                                  Cardinality(Preds) + Cardinality(DOMAIN views),
                                  Len(caches) + 1)
        IN  \A rid \in 1..MaxRecords :
                FilterAccepts(child.filter, rid)
                    <=> (FilterAccepts(view.filter, rid) /\ Matches(f[2], rid))

\* ==================================================== AsyncClient.bulk()
\* An action is a coroutine: a script of steps, each awaited in turn.
\*   "req"   await client.request(...)
\*   "pair"  await asyncio.gather(client.request(...), client.request(...))
\*   "work"  await something that is no request (a timer, another service)
Steps == {"req", "pair", "work"}
Programs == UNION {[1..n -> Steps] : n \in 0..MaxSteps}

\* What a script asks for: a request of no interest to the views.
ScriptRequest == [url |-> "script", filter |-> NoFilter, offset |-> NoOffset]

\* AsyncClient.request in a bulk context: the request_definition, here with
\* the action and the number of the request within the action it came from.
Definition(k, seq, req) == [task |-> k, seq |-> seq, req |-> req]

\* handle_bulk: request_definitions[request_key] = request_definition, event
Entry(key, def) == [key |-> key, def |-> def]

\* create_task(action): nothing has run yet.
NewTask(prog) == [prog |-> prog, pc |-> 0, phase |-> "new", keys |-> {}, got |-> {}]

\* The action of task k runs from its step pc to its next await: it ends,
\* waits for something else, or queues its request(s) through handle_bulk.
RunScript(k, task, pc, nextKey) ==
    LET made == Cardinality(task.got)
    IN  IF pc > Len(task.prog)
        THEN [task |-> [task EXCEPT !.pc = pc, !.phase = "done"], queued |-> <<>>]
        ELSE IF task.prog[pc] = "work"
        THEN [task |-> [task EXCEPT !.pc = pc, !.phase = "work"], queued |-> <<>>]
        ELSE IF task.prog[pc] = "req"
        THEN [task |-> [task EXCEPT !.pc = pc, !.phase = "wait",
                                    !.keys = {[key |-> nextKey, seq |-> made + 1]}],
              queued |-> <<Entry(nextKey, Definition(k, made + 1, ScriptRequest))>>]
        ELSE [task |-> [task EXCEPT !.pc = pc, !.phase = "wait",
                                    !.keys = {[key |-> nextKey, seq |-> made + 1],
                                              [key |-> nextKey + 1, seq |-> made + 2]}],
              queued |-> <<Entry(nextKey, Definition(k, made + 1, ScriptRequest)),
                           Entry(nextKey + 1, Definition(k, made + 2, ScriptRequest))>>]

\* What the action returns: which action it is and the responses it got.
TaskResult(k, task) == [action |-> k, got |-> task.got]

Done(task) == task.phase \in {"done", "failed"}
DoneTaskCount == Cardinality({k \in DOMAIN tasks : Done(tasks[k])})

\* The event loop runs the new tasks in the order they were created, each to
\* its first await, while bulk() waits on counting_event.
RECURSIVE StartAll(_, _, _, _)
StartAll(k, started, nextKey, queued) ==
    IF k > Len(started)
    THEN [tasks |-> started, next_key |-> nextKey, queued |-> queued]
    ELSE LET run == RunScript(k, started[k], 1, nextKey)
         IN  StartAll(k + 1, [started EXCEPT ![k] = run.task],
                      nextKey + Len(run.queued), queued \o run.queued)

\* bulk(*actions) was called: handle_bulk is installed, the tasks are created
\* and have run to their first await.
InitBulk ==
    /\ remote = <<>>
    /\ views = (<<>> :> NewView(1))
    /\ caches = << <<>> >>
    /\ \E n \in 1..MaxActions : \E progs \in [1..n -> Programs] :
           LET start == StartAll(1, [k \in 1..n |-> NewTask(progs[k])], 0, <<>>)
           IN  /\ tasks = start.tasks
               /\ next_key = start.next_key
               /\ request_definitions = start.queued
               /\ counting_event =
                      (start.queued # <<>> \/ \E k \in 1..n : Done(start.tasks[k]))
    /\ responses = {}
    /\ events = {}
    /\ coord = [pc |-> "loop", keys |-> <<>>, result |-> <<>>]
    /\ wire = <<>>
    /\ authenticated \in BOOLEAN
    /\ NoRecord
    /\ NoFilters

\* A task goes on after an await: what it queues is queued, and whatever
\* changes the number of waiting requests or of finished tasks sets
\* counting_event.
Continue(k, task, pc, woken) ==
    LET run == RunScript(k, task, pc, next_key)
    IN  /\ tasks' = [tasks EXCEPT ![k] = run.task]
        /\ next_key' = next_key + Len(run.queued)
        /\ request_definitions' = request_definitions \o run.queued
        /\ counting_event' =
               (woken \/ run.queued # <<>> \/ Done(run.task) \/ counting_event)

\* The unrelated thing task k waited for is there.
TaskWorkDone(k) ==
    /\ k \in DOMAIN tasks
    /\ tasks[k].phase = "work"
    /\ Continue(k, tasks[k], tasks[k].pc + 1, FALSE)
    /\ UNCHANGED <<recVars, fltVars, remote, views, caches, responses, events, coord, wire, authenticated>>

\* handle_bulk after request_event.wait(): the response is popped, request()
\* checks its status, and the action goes on once all it awaits is there. An
\* action that gathered two requests ends with the first SugarError; the
\* other request stays out and takes its response when its event is set.
TaskResume(k, key) ==
    /\ k \in DOMAIN tasks
    /\ tasks[k].phase = "wait" \/ (tasks[k].phase = "failed" /\ tasks[k].keys # {})
    /\ key \in events
    /\ \E mine \in tasks[k].keys : \E r \in responses :
           /\ mine.key = key
           /\ r.key = key
           /\ responses' = responses \ {r}
           /\ events' = events \ {key}
           /\ LET took == [tasks[k] EXCEPT
                              !.keys = @ \ {mine},
                              !.got = @ \cup {[seq |-> mine.seq, item |-> r.item]}]
              IN  IF r.item.status[1] \notin 200..299
                  THEN /\ tasks' = [tasks EXCEPT ![k] = [took EXCEPT !.phase = "failed"]]
                       /\ counting_event' = TRUE
                       /\ UNCHANGED <<next_key, request_definitions>>
                  ELSE IF took.keys # {} \/ took.phase = "failed"
                  THEN /\ tasks' = [tasks EXCEPT ![k] = took]
                       /\ counting_event' = TRUE
                       /\ UNCHANGED <<next_key, request_definitions>>
                  ELSE Continue(k, took, took.pc + 1, TRUE)
    /\ UNCHANGED <<recVars, fltVars, remote, views, caches, coord, wire, authenticated>>

\* ------------------------------------------------------------ the server
\* What the server answers to one request of a batch.
ServerContents(def) ==
    [for |-> def,
     count |-> IF def.req.url = "count" THEN ServerCount(def.req.filter) ELSE NoSize,
     records |-> IF def.req.url = "get"
                 THEN ServerRecords(def.req.filter, def.req.offset) ELSE <<>>]
ServerItem(def) == [status |-> <<200>>, contents |-> <<ServerContents(def)>>]

\* The bodies a POST /bulk can come back with: the list of answers, or
\* something that is no list, a list too short or too long, an element
\* without an integer status, an element without an object as contents.
Shapes == {"ok", "object", "short", "long", "nostatus", "nocontents"}
\* Well-formed bodies in which the server refuses the first or the last
\* request of the batch with a status that is not 2xx.
RefusedShapes == {"refused_first", "refused_last"}
NotFoundStatus == 404
ServerBulk(entries, shape) ==
    LET n     == Len(entries)
        items == [i \in 1..n |-> ServerItem(entries[i].def)]
    IN  IF shape = "object" THEN [sequence |-> FALSE, items |-> <<>>]
        ELSE IF shape = "short" THEN [sequence |-> TRUE, items |-> SubSeq(items, 1, n - 1)]
        ELSE IF shape = "long" THEN [sequence |-> TRUE, items |-> Append(items, items[n])]
        ELSE IF shape = "nostatus"
        THEN [sequence |-> TRUE, items |-> [items EXCEPT ![n].status = <<>>]]
        ELSE IF shape = "nocontents"
        THEN [sequence |-> TRUE, items |-> [items EXCEPT ![1].contents = <<>>]]
        ELSE IF shape = "refused_first"
        THEN [sequence |-> TRUE, items |-> [items EXCEPT ![1].status = <<NotFoundStatus>>]]
        ELSE IF shape = "refused_last"
        THEN [sequence |-> TRUE, items |-> [items EXCEPT ![n].status = <<NotFoundStatus>>]]
        ELSE [sequence |-> TRUE, items |-> items]

\* ------------------------------------------------------- the coordinator
AuthCall == [kind |-> "auth", entries |-> <<>>]
BulkCall(entries) == [kind |-> "bulk", entries |-> entries]

\* raw_request("post", "/bulk", ...) is sent with what is queued now.
SendBulk ==
    /\ wire' = Append(wire, BulkCall(request_definitions))
    /\ coord' = [coord EXCEPT
                     !.pc = "flight",
                     !.keys = [i \in 1..Len(request_definitions) |->
                                   request_definitions[i].key]]

\* _prepare_authentication taking the client for authenticated always.
PrepareAuthenticationNever == FALSE

\* _prepare_authentication gives a payload (the first authentication, or the
\* renewal of a token about to expire) and not None.
PrepareAuthentication == ~authenticated

\* The while loop's test for waiting, taking any queued request for enough.
MustWaitForAny == request_definitions = <<>>

\* The while loop's test for waiting: fewer requests are queued than tasks
\* are unfinished.
MustWait == Len(request_definitions) < Len(tasks) - DoneTaskCount

\* gather returning the results from the last task to the first.
GatherReversed(ts) == [k \in DOMAIN ts |-> TaskResult(Len(ts) + 1 - k, ts[Len(ts) + 1 - k])]

\* asyncio.gather(*action_tasks): the results in the order of the tasks.
Gather(ts) == [k \in DOMAIN ts |-> TaskResult(k, ts[k])]

\* A while loop that leaves as soon as one action has raised.
CoordLoopRaisingEarly ==
    /\ coord.pc = "loop"
    /\ IF DoneTaskCount = Len(tasks) \/ \E k \in DOMAIN tasks : tasks[k].phase = "failed"
       THEN /\ coord' = [coord EXCEPT
                             !.pc = IF \E k \in DOMAIN tasks : tasks[k].phase = "failed"
                                    THEN "raised" ELSE "returned",
                             !.result = Gather(tasks)]
            /\ UNCHANGED <<counting_event, wire>>
       ELSE IF MustWait
       THEN /\ counting_event
            /\ counting_event' = FALSE
            /\ UNCHANGED <<coord, wire>>
       ELSE IF ~PrepareAuthentication
       THEN SendBulk /\ UNCHANGED counting_event
       ELSE /\ wire' = Append(wire, AuthCall)
            /\ coord' = [coord EXCEPT !.pc = "auth"]
            /\ UNCHANGED counting_event
    /\ UNCHANGED <<recVars, fltVars, remote, views, caches, tasks, next_key, request_definitions,
                   responses, events, authenticated>>

\* One turn of bulk()'s while loop, up to its next await: all tasks done, it
\* gathers and returns; fewer requests queued than tasks unfinished, it waits
\* for counting_event, clears it and looks again; otherwise it authenticates
\* if need be and sends the batch.
CoordLoop ==
    /\ coord.pc = "loop"
    /\ IF DoneTaskCount = Len(tasks)
       THEN /\ coord' = [coord EXCEPT
                             !.pc = IF \E k \in DOMAIN tasks : tasks[k].phase = "failed"
                                    THEN "raised" ELSE "returned",
                             !.result = Gather(tasks)]
            /\ UNCHANGED <<counting_event, wire>>
       ELSE IF MustWait
       THEN /\ counting_event
            /\ counting_event' = FALSE
            /\ UNCHANGED <<coord, wire>>
       ELSE IF ~PrepareAuthentication
       THEN SendBulk /\ UNCHANGED counting_event
       ELSE /\ wire' = Append(wire, AuthCall)
            /\ coord' = [coord EXCEPT !.pc = "auth"]
            /\ UNCHANGED counting_event
    /\ UNCHANGED <<recVars, fltVars, remote, views, caches, tasks, next_key, request_definitions,
                   responses, events, authenticated>>

\* _ensure_authentication got its token; the batch goes out.
CoordAuthDone ==
    /\ coord.pc = "auth"
    /\ authenticated' = TRUE
    /\ SendBulk
    /\ UNCHANGED <<recVars, fltVars, remote, views, caches, tasks, next_key, request_definitions,
                   responses, events, counting_event>>

\* The zip loop checking the contents of the elements only.
FirstBadContentsOnly(items) ==
    LET bad == {i \in 1..Len(items) : items[i].contents = <<>>}
    IN  IF bad = {} THEN 0 ELSE CHOOSE i \in bad : \A j \in bad : i <= j

\* The zip loop pairing the keys with the answers from the other end.
DistributeBackwards(keys, items, upto) ==
    {[key |-> keys[i], item |-> items[Len(items) + 1 - i]] : i \in 1..upto}

\* for key, item in zip(request_keys, response_json): responses[key] = item,
\* up to the first element that is rejected.
Distribute(keys, items, upto) ==
    {[key |-> keys[i], item |-> items[i]] : i \in 1..upto}

\* The first element of the answer the zip loop rejects, 0 if none.
FirstBad(items) ==
    LET bad == {i \in 1..Len(items) : items[i].status = <<>> \/ items[i].contents = <<>>}
    IN  IF bad = {} THEN 0 ELSE CHOOSE i \in bad : \A j \in bad : i <= j

\* The answer to the batch is there: the queue is cleared, the answer is
\* checked and split up by key, and the events of the batch are set.
CoordReceive(shape) ==
    /\ coord.pc = "flight"
    /\ LET answer == ServerBulk(wire[Len(wire)].entries, shape)
           keys   == coord.keys
           bad    == FirstBad(answer.items)
           upto   == IF bad = 0 THEN Len(keys) ELSE bad - 1
       IN  /\ request_definitions' = <<>>
           /\ IF ~answer.sequence \/ Len(answer.items) # Len(keys)
              THEN /\ coord' = [coord EXCEPT !.pc = "InvalidSugarResponseError"]
                   /\ UNCHANGED <<responses, events>>
              ELSE /\ responses' = responses \cup Distribute(keys, answer.items, upto)
                   /\ IF bad # 0
                      THEN /\ coord' = [coord EXCEPT !.pc = "InvalidSugarResponseError"]
                           /\ UNCHANGED events
                      ELSE /\ coord' = [coord EXCEPT !.pc = "loop"]
                           /\ events' = events \cup {keys[i] : i \in 1..Len(keys)}
    /\ UNCHANGED <<recVars, fltVars, remote, views, caches, tasks, next_key, counting_event, wire,
                   authenticated>>

\* Time passes: the token comes within ten minutes of its expiry.
TokenExpires ==
    /\ authenticated
    /\ coord.pc \in {"loop", "flight"}
    /\ authenticated' = FALSE
    /\ UNCHANGED <<recVars, fltVars, remote, views, caches, tasks, next_key, request_definitions,
                   responses, events, counting_event, coord, wire>>

NextBulk ==
    \/ TokenExpires
    \/ \E k \in DOMAIN tasks : TaskWorkDone(k)
    \/ \E k \in DOMAIN tasks, key \in events : TaskResume(k, key)
    \/ CoordLoop
    \/ CoordAuthDone
    \/ \E shape \in Shapes : CoordReceive(shape)

\* bulk() with scripted actions.
SpecBulk == InitBulk /\ [][NextBulk]_vars

\* ------------------------------------------------------- claims on bulk()
BulkCalls == SelectSeq(wire, LAMBDA call : call.kind = "bulk")
BulkSent == Len(wire') = Len(wire) + 1 /\ wire'[Len(wire')].kind = "bulk"
QueuedKeys == {request_definitions[i].key : i \in 1..Len(request_definitions)}
SentKeys ==
    UNION {{BulkCalls[b].entries[i].key : i \in 1..Len(BulkCalls[b].entries)} :
               b \in 1..Len(BulkCalls)}

\* C14: a bulk request is sent only when every action that has not completed
\* is suspended on a request it has queued; while an unfinished action is
\* doing something else, none is sent.
C14_BulkOnlyWhenAllWait ==
    [][BulkSent =>
           \A k \in DOMAIN tasks : ~Done(tasks[k]) =>
               /\ tasks[k].phase = "wait"
               /\ \E mine \in tasks[k].keys : mine.key \in QueuedKeys]_vars

\* C15: every request definition an action queues is in exactly one bulk
\* request, never dropped and never sent twice, and within a bulk request the
\* definitions are in the order they were queued. (A bulk request that comes
\* back malformed ends bulk() with what is queued unsent.)
C15_QueuedSentOnce ==
    /\ coord.pc # "InvalidSugarResponseError" =>
           \A key \in 0..(next_key - 1) : key \in QueuedKeys \cup SentKeys
    /\ \A b, c \in 1..Len(BulkCalls) :
           \A i \in 1..Len(BulkCalls[b].entries), j \in 1..Len(BulkCalls[c].entries) :
               BulkCalls[b].entries[i].key = BulkCalls[c].entries[j].key
                   => b = c /\ i = j
    /\ \A b \in 1..Len(BulkCalls) :
           \A i, j \in 1..Len(BulkCalls[b].entries) :
               i < j => BulkCalls[b].entries[i].key < BulkCalls[b].entries[j].key

\* The entries of all bulk requests sent so far, and the response element
\* the server gave for a key of a batch that was answered.
SentEntries ==
    UNION {{BulkCalls[b].entries[i] : i \in 1..Len(BulkCalls[b].entries)} :
               b \in 1..Len(BulkCalls)}
ResponseKeys == {r.key : r \in responses}

\* C16: an action is resumed with the response element at the position of its
\* own request in the batch, never with that of another action, and a
\* response is consumed exactly once: it is in responses until its action
\* takes it, and gone from there afterwards.
C16_OwnResponseOnce ==
    /\ \A k \in DOMAIN tasks : \A g \in tasks[k].got :
           /\ g.item = ServerItem(Definition(k, g.seq, ScriptRequest))
           /\ \A h \in tasks[k].got : h.seq = g.seq => h = g
    /\ \A r \in responses :
           /\ \A s \in responses : s.key = r.key => s = r
           /\ \E e \in SentEntries :
                  /\ e.key = r.key
                  /\ \E mine \in tasks[e.def.task].keys :
                         mine.key = r.key /\ mine.seq = e.def.seq
                  /\ \A g \in tasks[e.def.task].got : g.seq # e.def.seq
    /\ \A key \in events : key \in ResponseKeys

C16_Witness ==
    /\ \E b \in 1..Len(BulkCalls) :
           \E i, j \in 1..Len(BulkCalls[b].entries) :
               BulkCalls[b].entries[i].def.task # BulkCalls[b].entries[j].def.task
    /\ Len(tasks) = 2
    /\ tasks[1].got # {}
    /\ tasks[2].got # {}
    /\ responses = {}

\* C17: bulk(a1..aN) returns the N results in the order the actions were
\* passed, whatever the order or the round the actions completed in.
C17_ResultsInArgumentOrder ==
    coord.pc = "returned" =>
        /\ Len(coord.result) = Len(tasks)
        /\ \A k \in DOMAIN tasks :
               /\ coord.result[k].action = k
               /\ coord.result[k].got = tasks[k].got

\* The second action was through a round before the first.
C17_Witness ==
    /\ coord.pc = "returned"
    /\ Len(tasks) = 2
    /\ Cardinality(tasks[1].got) = 2
    /\ Cardinality(tasks[2].got) = 1
    /\ Len(BulkCalls) = 2

\* Every action awaits its requests one after another; r_k, the number of
\* requests action k needs; the largest of them.
Sequential ==
    \A k \in DOMAIN tasks : \A i \in DOMAIN tasks[k].prog : tasks[k].prog[i] # "pair"
Needs(k) == Cardinality({i \in DOMAIN tasks[k].prog : tasks[k].prog[i] = "req"})
MaxNeeds == CHOOSE n \in 0..MaxSteps + 1 :
                /\ \A k \in DOMAIN tasks : Needs(k) <= n
                /\ n = 0 \/ \E k \in DOMAIN tasks : Needs(k) = n

\* C19: when every action only awaits requests one after another, action k
\* needing r_k of them, the j-th bulk request holds exactly one request, the
\* j-th, of every action with r_k >= j, and a bulk() that returns has sent
\* max r_k bulk requests, none when no action issues a request.
C19_RoundsAreMaxRequests ==
    Sequential =>
        /\ \A j \in 1..Len(BulkCalls) :
               LET entries == BulkCalls[j].entries
               IN  /\ {entries[i].def : i \in 1..Len(entries)} =
                          {Definition(k, j, ScriptRequest) :
                               k \in {a \in DOMAIN tasks : Needs(a) >= j}}
                   /\ Len(entries) =
                          Cardinality({a \in DOMAIN tasks : Needs(a) >= j})
        /\ Len(BulkCalls) <= MaxNeeds
        /\ coord.pc = "returned" => Len(BulkCalls) = MaxNeeds

C19_Witness ==
    /\ coord.pc = "returned"
    /\ Len(tasks) = 2
    /\ tasks[1].prog = <<"req">>
    /\ tasks[2].prog = <<"req", "req">>
    /\ Len(BulkCalls) = 2
    /\ Len(BulkCalls[1].entries) = 2
    /\ Len(BulkCalls[2].entries) = 1

\* No action issues a request: bulk() returns without a bulk request.
C19_WitnessNone ==
    /\ coord.pc = "returned"
    /\ MaxNeeds = 0
    /\ Sequential
    /\ \E k \in DOMAIN tasks : tasks[k].prog # <<>>
    /\ wire = <<>>

\* The bulk answers that break the protocol, and the requests of the batch
\* that was sent last.
BadShapes == Shapes \ {"ok"}
LastBatch == wire[Len(wire)].entries
Answered(e) == \E g \in tasks[e.def.task].got : g.seq = e.def.seq

\* C20: a bulk answer that is no sequence, has another length than the
\* batch, or has an element without an integer status or without an object
\* as contents makes bulk() raise InvalidSugarResponseError, and no action
\* waiting on that batch is resumed with a response, then or later.
C20_MalformedBulkRaises ==
    /\ [][\A shape \in BadShapes :
              CoordReceive(shape) =>
                  /\ coord'.pc = "InvalidSugarResponseError"
                  /\ events' = events
                  /\ tasks' = tasks]_vars
    /\ [](coord.pc = "InvalidSugarResponseError" =>
              \A i \in 1..Len(LastBatch) :
                  /\ LastBatch[i].key \notin events
                  /\ ~Answered(LastBatch[i]))

\* A batch of two came back with its last element broken: the first was
\* stored, and still nobody was woken.
C20_Witness ==
    /\ coord.pc = "InvalidSugarResponseError"
    /\ Len(LastBatch) = 2
    /\ LastBatch[1].key \in ResponseKeys
    /\ LastBatch[2].key \notin ResponseKeys
    /\ \E k \in DOMAIN tasks : tasks[k].phase = "wait"

\* ================================== AsyncView.get_by_index through bulk()
\* An action `view[index]` of an AsyncView runs in stretches between its
\* awaits. Each stretch gives the view and the dict as it leaves them, where
\* it stops ("count": awaiting _fetch_size, "get": awaiting the request of
\* _get_by_offset, "done") and what get_by_index returned or raised.
Stopped(view, cache, stage, offset, raised, records) ==
    [view |-> view, cache |-> cache, stage |-> stage, offset |-> offset,
     raised |-> raised, records |-> records]

\* get_by_index after _calculate_range: _index_to_offset, then
\* _prepare_get_by_offset, which finds the record in the dict or gives the
\* request to await.
FetchAtOffset(view, cache, offset) ==
    IF offset = NoOffset
    THEN Stopped(view, cache, "done", NoOffset, "IndexError", <<>>)
    ELSE IF PrepareGetByOffset(cache, offset).hit
    THEN Stopped(view, cache, "done", offset, "", <<PrepareGetByOffset(cache, offset).record>>)
    ELSE Stopped(view, cache, "get", offset, "", <<>>)

\* _calculate_range that applies its copy of the pending slices and leaves
\* the view's list as it is.
FetchApplyKeepsPending(view, cache, copied, index) ==
    The({IF applied.raised # ""
         THEN Stopped([view EXCEPT !.range = applied.range], cache, "done",
                      NoOffset, applied.raised, <<>>)
         ELSE FetchAtOffset([view EXCEPT !.range = applied.range],
                            cache, IndexToOffset(applied.range, index))
         : applied \in {ApplyPending(view.range, copied)}})

\* _calculate_range from its while loop on, with the copy of the pending
\* slices taken on entry: the view's list is cleared only when all of them
\* were applied.
FetchApply(view, cache, copied, index) ==
    The({IF applied.raised # ""
         THEN Stopped([view EXCEPT !.range = applied.range], cache, "done",
                      NoOffset, applied.raised, <<>>)
         ELSE FetchAtOffset([view EXCEPT !.range = applied.range, !.pending = <<>>],
                            cache, IndexToOffset(applied.range, index))
         : applied \in {ApplyPending(view.range, copied)}})

\* get_by_index up to its first await.
FetchStart(view, cache, index) ==
    IF view.range = NoRange /\ view.size = NoSize
    THEN Stopped(view, cache, "count", NoOffset, "", <<>>)
    ELSE FetchApply(IF view.range = NoRange
                    THEN [view EXCEPT !.range = Range(0, view.size, 1)]
                    ELSE view,
                    cache, view.pending, index)

\* _calculate_range going on with the slices the view has pending now.
FetchAfterCountOwnPending(view, cache, copied, index, count) ==
    FetchApply([view EXCEPT !.size = count, !.range = Range(0, count, 1)],
               cache, view.pending, index)

\* The count is there: _fetch_size stores it, _calculate_range sets the full
\* range and applies its copy of the pending slices.
FetchAfterCount(view, cache, copied, index, count) ==
    FetchApply([view EXCEPT !.size = count, !.range = Range(0, count, 1)],
               cache, copied, index)

\* The record is there: _finalize_get_by_offset, then get_by_index's test.
FetchAfterGet(view, cache, offset, records) ==
    LET fin == FinalizeGetByOffset(cache, offset, records,
                                   FreshObj(view.cache, cache, offset))
    IN  IF fin.record = NoneRec
        THEN Stopped(view, fin.cache, "done", offset, "IndexError", <<>>)
        ELSE Stopped(view, fin.cache, "done", offset, "", <<fin.record>>)

\* create_task(view[index]) for the view kept under `path`.
NewFetch(path, index) ==
    [path |-> path, index |-> index, phase |-> "new", stage |-> "new",
     keys |-> {}, got |-> {}, copied |-> <<>>, offset |-> NoOffset,
     raised |-> "", records |-> <<>>]

\* Task k after a stretch that stopped as `st`: it is done, or it has queued
\* the request it awaits through handle_bulk.
FetchGoesOn(k, task, st, nextKey) ==
    LET seq == Cardinality(task.got) + 1
    IN  IF st.stage = "done"
        THEN [task |-> [task EXCEPT !.phase = IF st.raised = "" THEN "done" ELSE "failed",
                                    !.stage = "done", !.keys = {},
                                    !.offset = st.offset, !.raised = st.raised,
                                    !.records = st.records],
              queued |-> <<>>]
        ELSE [task |-> [task EXCEPT !.phase = "wait", !.stage = st.stage,
                                    !.keys = {[key |-> nextKey, seq |-> seq]},
                                    !.offset = st.offset],
              queued |-> <<Entry(nextKey,
                                 Definition(k, seq,
                                            IF st.stage = "count"
                                            THEN CountRequest(st.view.filter)
                                            ELSE GetRequest(st.view.filter, st.offset)))>>]

\* The event loop runs the new tasks in the order they were created, each to
\* its first await, on the views and dicts the ones before left.
RECURSIVE StartFetches(_, _, _, _, _, _)
StartFetches(k, started, vs, cs, nextKey, queued) ==
    IF k > Len(started)
    THEN [tasks |-> started, views |-> vs, caches |-> cs, next_key |-> nextKey,
          queued |-> queued]
    ELSE LET task == started[k]
             view == vs[task.path]
         IN  The({The({StartFetches(k + 1, [started EXCEPT ![k] = on.task],
                                    [vs EXCEPT ![task.path] = st.view],
                                    [cs EXCEPT ![view.cache] = st.cache],
                                    nextKey + Len(on.queued), queued \o on.queued)
                       : on \in {FetchGoesOn(k, [task EXCEPT !.copied = view.pending],
                                             st, nextKey)}})
                  : st \in {FetchStart(view, cs[view.cache], task.index)}})

\* The indexes the actions fetch.
FetchIndexes == (0 - 1) .. MaxRecords

\* Module.find() and one slice of it, each of them resolved before by
\* `await view.length()` or not.
FetchViews ==
    UNION {UNION {
        LET root  == IF rootResolved THEN CalculateRange(NewView(1)).view ELSE NewView(1)
            child == SliceView(root, s, 2)
        IN  {(<<>> :> root) @@ (<<SliceStep(s)>> :> child)} \cup
            {(<<>> :> root) @@ (<<SliceStep(s)>> :> CalculateRange(child).view) :
                 x \in IF s.step = Some(0) THEN {} ELSE {1}}
        : rootResolved \in BOOLEAN} : s \in Slices}

\* The views exist and bulk() was not called yet.
InitFetch ==
    /\ remote \in {[i \in 1..n |-> i] : n \in 0..MaxRecords}
    /\ views \in FetchViews
    /\ caches = << <<>> >>
    /\ tasks = <<>>
    /\ next_key = 0
    /\ request_definitions = <<>>
    /\ responses = {}
    /\ events = {}
    /\ counting_event = FALSE
    /\ coord = [pc |-> "idle", keys |-> <<>>, result |-> <<>>,
                start |-> [views |-> views, caches |-> caches]]
    /\ wire = <<>>
    /\ authenticated = TRUE
    /\ NoRecord
    /\ NoFilters

\* bulk(view[i1], .., view[iN]) is called: handle_bulk is installed, the tasks
\* are created and run to their first await. coord.start keeps the views and
\* dicts as they were at the call.
BulkFetch(fetches) ==
    /\ coord.pc = "idle"
    /\ \E start \in {StartFetches(1, [k \in DOMAIN fetches |->
                                          NewFetch(fetches[k][1], fetches[k][2])],
                                  views, caches, 0, <<>>)} :
           /\ views' = start.views
           /\ caches' = start.caches
           /\ tasks' = start.tasks
           /\ next_key' = start.next_key
           /\ request_definitions' = start.queued
           /\ counting_event' =
                  (start.queued # <<>> \/ \E k \in DOMAIN fetches : Done(start.tasks[k]))
    /\ coord' = [coord EXCEPT !.pc = "loop",
                              !.start = [views |-> views, caches |-> caches]]
    /\ UNCHANGED <<recVars, fltVars, remote, responses, events, wire, authenticated>>

\* handle_bulk after request_event.wait(): the response is popped, request()
\* checks its status, and get_by_index goes on to its next await or its end.
FetchResume(k, key) ==
    /\ k \in DOMAIN tasks
    /\ tasks[k].phase = "wait"
    /\ key \in events
    /\ \E mine \in tasks[k].keys : \E r \in responses :
           /\ mine.key = key
           /\ r.key = key
           /\ responses' = responses \ {r}
           /\ events' = events \ {key}
           /\ LET task == [tasks[k] EXCEPT
                              !.got = @ \cup {[seq |-> mine.seq, item |-> r.item]}]
                  view == views[task.path]
                  cache == caches[view.cache]
                  body == r.item.contents[1]
              IN  \E st \in {IF r.item.status[1] \notin 200..299
                             THEN Stopped(view, cache, "done", task.offset, "SugarError", <<>>)
                             ELSE IF task.stage = "count"
                             THEN FetchAfterCount(view, cache, task.copied, task.index,
                                                  body.count)
                             ELSE FetchAfterGet(view, cache, task.offset, body.records)} :
                  \E on \in {FetchGoesOn(k, task, st, next_key)} :
                      /\ tasks' = [tasks EXCEPT ![k] = on.task]
                      /\ views' = [views EXCEPT ![task.path] = st.view]
                      /\ caches' = [caches EXCEPT ![view.cache] = st.cache]
                      /\ next_key' = next_key + Len(on.queued)
                      /\ request_definitions' = request_definitions \o on.queued
                      /\ counting_event' = TRUE
    /\ UNCHANGED <<recVars, fltVars, remote, coord, wire, authenticated>>

NextFetch ==
    \/ \E n \in 1..MaxActions :
           \E fetches \in [1..n -> (DOMAIN views) \X FetchIndexes] : BulkFetch(fetches)
    \/ \E k \in DOMAIN tasks, key \in events : FetchResume(k, key)
    \/ CoordLoop
    \/ \E shape \in Shapes : CoordReceive(shape)

\* bulk() with index fetches as actions.
SpecFetch == InitFetch /\ [][NextFetch]_vars

\* ------------------------------------------- claims on fetches in bulk()
\* `await view[index]` outside bulk(): request() sends each request by itself
\* and the answer is there when the await returns.
AwaitGetByIndex(view, cache, index) ==
    The({The({IF counted.stage = "get"
              THEN FetchAfterGet(counted.view, counted.cache, counted.offset,
                                 ServerRecords(view.filter, counted.offset))
              ELSE counted
              : counted \in {IF started.stage = "count"
                             THEN FetchAfterCount(started.view, started.cache,
                                                  view.pending, index,
                                                  ServerCount(view.filter))
                             ELSE started}})
         : started \in {FetchStart(view, cache, index)}})

\* What the fetches of the tasks give when they are awaited one after
\* another, from the views and dicts vs and cs on: for each, what it raised
\* and the id of the record it returned.
RECURSIVE AwaitInTurn(_, _, _, _)
AwaitInTurn(k, vs, cs, outs) ==
    IF k > Len(tasks)
    THEN outs
    ELSE LET path == tasks[k].path
             cid  == vs[path].cache
         IN  The({AwaitInTurn(k + 1, [vs EXCEPT ![path] = r.view],
                              [cs EXCEPT ![cid] = r.cache],
                              Append(outs, [raised |-> r.raised, ids |-> Ids(r.records)]))
                  : r \in {AwaitGetByIndex(vs[path], cs[cid], tasks[k].index)}})

\* C18: index fetches run together through bulk(), on one view or on several,
\* resolved or not, give each action the record, or the IndexError, that
\* awaiting the same fetches one after another gives.
C18_BulkFetchesAsInTurn ==
    coord.pc # "idle" =>
        \A inTurn \in {AwaitInTurn(1, coord.start.views, coord.start.caches, <<>>)} :
            \A k \in DOMAIN tasks :
                Done(tasks[k]) =>
                    /\ tasks[k].raised = inTurn[k].raised
                    /\ Ids(tasks[k].records) = inTurn[k].ids

\* Two fetches of different records on one view that was neither counted nor
\* sliced yet when bulk() was called.
C18_Witness ==
    /\ coord.pc = "returned"
    /\ Len(tasks) = 2
    /\ tasks[1].path = tasks[2].path
    /\ tasks[1].path # <<>>
    /\ coord.start.views[tasks[1].path].range = NoRange
    /\ coord.start.views[tasks[1].path].pending # <<>>
    /\ Cardinality(tasks[1].got) = 2
    /\ Cardinality(tasks[2].got) = 2
    /\ tasks[1].records # <<>>
    /\ tasks[2].records # <<>>
    /\ tasks[1].records[1].id # tasks[2].records[1].id
    /\ tasks[1].records[1].id # remote[tasks[1].index + 1]

\* ------------------------------------------ claims on authentication
AuthSent == Len(wire') = Len(wire) + 1 /\ wire'[Len(wire')].kind = "auth"

\* C21: an authentication is never part of a bulk payload. When the client
\* needs one, it goes out as a request of its own, which is answered before
\* the bulk request is sent, and a bulk payload holds nothing but request
\* definitions the actions queued.
C21_AuthOutsideBulk ==
    /\ [][/\ AuthSent => /\ ~authenticated
                         /\ wire'[Len(wire')] = AuthCall
                         /\ coord'.pc = "auth"
          /\ BulkSent => /\ authenticated'
                         /\ ~authenticated =>
                                coord.pc = "auth" /\ wire[Len(wire)] = AuthCall
                         /\ wire'[Len(wire')].entries = request_definitions]_vars
    /\ [](/\ coord.pc = "auth" => wire[Len(wire)] = AuthCall
          /\ \A e \in SentEntries :
                 /\ e.key \in 0..(next_key - 1)
                 /\ e.def.task \in DOMAIN tasks
                 /\ e.def.req = ScriptRequest
                 /\ e.def.seq <= Cardinality(tasks[e.def.task].got)
                                  + Cardinality(tasks[e.def.task].keys))

\* The token ran out between two rounds: authentication, bulk request,
\* renewal, bulk request.
C21_Witness ==
    /\ Len(wire) = 4
    /\ wire[1].kind = "auth"
    /\ wire[2].kind = "bulk"
    /\ wire[3].kind = "auth"
    /\ wire[4].kind = "bulk"
    /\ coord.pc = "returned"

\* ---------------------------------------------------------------- records
\* Strings that the code takes apart or puts together are sequences of
\* characters: keys (startswith), ids and endpoints (f"{api_name}/{id}").
ID == <<"i", "d">>
\* BaseDemo's fields foo and bar
FieldNames == {<<"f", "o", "o">>, <<"b", "a", "r">>}
ModuleKey == <<"_", "m", "o", "d", "u", "l", "e">>
\* Demo._api_name
ApiName == <<"D", "e", "m", "o">>
\* Most operations on the record in one behaviour.
MaxOps == 4
\* The ids the server hands out, in this order.
ServerIds == << <<"a">>, <<"b">>, <<"c">> >>
FieldValues == {<<"x">>, <<"y">>}

\* key.startswith("_")
StartsWithUnderscore(key) == Len(key) > 0 /\ key[1] = "_"

\* BaseModule._set_data
BaseSetData(data) ==
    [original |-> [key \in {k \in DOMAIN data : ~StartsWithUnderscore(k)} |-> data[key]],
     updated |-> <<>>]

\* BoundModule._set_data: the record after it, or the exception.
SetData(self, data) ==
    IF (IF ModuleKey \in DOMAIN data THEN data[ModuleKey] ELSE ApiName) # ApiName
    THEN [raised |-> "ValueError", rec |-> self]
    ELSE [raised |-> "none", rec |-> BaseSetData(data)]

\* A __getitem__ that looks into the original data first.
GetItemOriginalFirst(self, item) ==
    IF item \in DOMAIN self.original
    THEN [raised |-> "none", value |-> self.original[item]]
    ELSE IF item \in DOMAIN self.updated
         THEN [raised |-> "none", value |-> self.updated[item]]
         ELSE [raised |-> "KeyError", value |-> None]

\* BaseModule.__getitem__
GetItem(self, item) ==
    IF item \in DOMAIN self.updated
    THEN [raised |-> "none", value |-> self.updated[item]]
    ELSE IF item \in DOMAIN self.original
         THEN [raised |-> "none", value |-> self.original[item]]
         ELSE [raised |-> "KeyError", value |-> None]

\* BaseModule.get_data(key), default None
GetData(self, key) ==
    LET value == GetItem(self, key)
    IN  IF value.raised = "KeyError" THEN None ELSE value.value

\* A _mutation_endpoint that does not look for the id first.
MutationEndpointUnchecked(self) ==
    [raised |-> "none", value |-> ApiName \o <<"/">> \o GetData(self, ID)]

\* BoundModule._mutation_endpoint
MutationEndpoint(self) ==
    IF GetData(self, ID) = None
    THEN [raised |-> "UnsavedRecordError", value |-> <<>>]
    ELSE [raised |-> "none", value |-> ApiName \o <<"/">> \o GetItem(self, ID).value]

\* A _prepare_save that sends every field on updates too.
PrepareSaveAllFields(self) ==
    LET record_id == GetData(self, ID)
        data_keys == (DOMAIN self.updated \cup DOMAIN self.original) \ {ID}
        data == [key \in data_keys |-> GetItem(self, key).value]
    IN  IF record_id = None
        THEN [raised |-> "none", method |-> "post", endpoint |-> ApiName, json |-> data]
        ELSE [raised |-> "none", method |-> "put",
              endpoint |-> ApiName \o <<"/">> \o record_id, json |-> data]

\* BoundModule._prepare_save
PrepareSave(self) ==
    LET record_id == GetData(self, ID)
        data_keys == IF record_id = None
                     THEN DOMAIN self.updated \cup DOMAIN self.original
                     ELSE DOMAIN self.updated
        data == [key \in data_keys |-> GetItem(self, key).value]
    IN  IF \E key \in data_keys : StartsWithUnderscore(key)
        THEN [raised |-> "ValueError"]
        ELSE IF record_id = None
             THEN [raised |-> "none", method |-> "post", endpoint |-> ApiName,
                   json |-> data]
             ELSE IF ID \in DOMAIN data
                  THEN [raised |-> "ValueError"]
                  ELSE [raised |-> "none", method |-> "put",
                        endpoint |-> ApiName \o <<"/">> \o record_id, json |-> data]

\* A _finalize_save that merges the updated data into the original locally.
FinalizeSaveLocally(self, record_data) ==
    [raised |-> "none",
     rec |-> [original |-> self.updated @@ self.original, updated |-> <<>>]]

\* BoundModule._finalize_save
FinalizeSave(self, record_data) == SetData(self, record_data)

\* A _finalize_delete that forgets the updated data instead of merging it.
FinalizeDeleteForgets(self) ==
    [original |-> [key \in DOMAIN self.original \ {ID} |-> self.original[key]],
     updated |-> <<>>]

\* A _finalize_delete that merges but keeps the id.
FinalizeDeleteKeepsId(self) ==
    [original |-> self.updated @@ self.original, updated |-> <<>>]

\* BoundModule._finalize_delete
FinalizeDelete(self) ==
    LET data_keys == DOMAIN self.updated \cup DOMAIN self.original
    IN  [original |-> [key \in data_keys \ {ID} |-> GetData(self, key)],
         updated |-> <<>>]

\* A _finalize_refresh that keeps the updated data.
FinalizeRefreshKeepsUpdated(self, record_data) ==
    [raised |-> "none",
     rec |-> [BaseSetData(record_data) EXCEPT !.updated = self.updated]]

\* BoundModule._finalize_refresh
FinalizeRefresh(self, record_data) == SetData(self, record_data)

\* ---------------------------------------------------- the module's server
\* A stored record holds its id among its fields; a deleted one holds nothing.
Stored(id) == id \in DOMAIN server /\ server[id] # <<>>

\* What the server sends for a stored record.
Rendered(data) == (ModuleKey :> ApiName) @@ data

\* The id an endpoint names: what follows its first slash.
EndpointId(endpoint) ==
    LET slash == CHOOSE i \in 1..Len(endpoint) + 1 :
                     /\ i = Len(endpoint) + 1 \/ endpoint[i] = "/"
                     /\ \A j \in 1..i - 1 : endpoint[j] # "/"
    IN  SubSeq(endpoint, slash + 1, Len(endpoint))

NotFound == [status |-> 404, body |-> (<<"e", "r", "r", "o", "r">> :> <<"n">>),
             server |-> server]

\* The server's answer to one call, and its records after it.
ServerRequest(method, endpoint, json) ==
    LET id == EndpointId(endpoint)
    IN  CASE method = "post" ->
                 LET free == {i \in 1..Len(ServerIds) : ServerIds[i] \notin DOMAIN server}
                     new == ServerIds[CHOOSE i \in free : \A j \in free : i <= j]
                     data == (ID :> new) @@ json
                 IN  IF free = {} THEN [NotFound EXCEPT !.status = 500]
                     ELSE [status |-> 200, body |-> Rendered(data),
                           server |-> (new :> data) @@ server]
          [] method = "put" ->
                 IF ~Stored(id) THEN NotFound
                 ELSE LET data == (ID :> id) @@ json @@ server[id]
                      IN  [status |-> 200, body |-> Rendered(data),
                           server |-> [server EXCEPT ![id] = data]]
          [] method = "delete" ->
                 IF ~Stored(id) THEN NotFound
                 ELSE [status |-> 200, body |-> (ID :> id),
                       server |-> [server EXCEPT ![id] = <<>>]]
          [] method = "get" ->
                 IF ~Stored(id) THEN NotFound
                 ELSE [status |-> 200, body |-> Rendered(server[id]), server |-> server]

\* client.request for the record: the call is recorded and the server gives
\* its answer; _finalize_request raises SugarError unless the status is 2xx.
Request(method, endpoint, json, answer) ==
    /\ calls' = Append(calls, [method |-> method, endpoint |-> endpoint, json |-> json])
    /\ server' = answer.server

Raised(op, exception) == [op |-> op, raised |-> exception, n |-> outcome.n + 1]

\* ------------------------------------------------- operations on a record
\* record.foo = value, record.bar = value (MutableScalarField._set_value).
Assign(name, value) ==
    /\ outcome.n < MaxOps
    /\ UNCHANGED <<remote, views, caches, bulkVars, fltVars>>
    /\ rec' = [rec EXCEPT !.updated = (name :> value) @@ rec.updated]
    /\ assigned' = (name :> value) @@ assigned
    /\ outcome' = Raised("assign", "none")
    /\ UNCHANGED <<server, calls>>

\* SyncModule.save
Save ==
    /\ outcome.n < MaxOps
    /\ UNCHANGED <<remote, views, caches, bulkVars, fltVars>>
    /\ \E prep \in {PrepareSave(rec)} :
         IF prep.raised # "none"
         THEN /\ outcome' = Raised("save", prep.raised)
              /\ UNCHANGED <<rec, server, calls, assigned>>
         ELSE \E answer \in {ServerRequest(prep.method, prep.endpoint, prep.json)} :
                /\ Request(prep.method, prep.endpoint, prep.json, answer)
                /\ IF answer.status \notin 200..299
                   THEN /\ outcome' = Raised("save", "SugarError")
                        /\ UNCHANGED <<rec, assigned>>
                   ELSE \E fin \in {FinalizeSave(rec, answer.body)} :
                          /\ rec' = fin.rec
                          /\ outcome' = Raised("save", fin.raised)
                          /\ assigned' = IF fin.raised = "none" THEN <<>> ELSE assigned

\* A delete that runs _finalize_delete before the call is answered.
DeleteFinalizingFirst ==
    /\ outcome.n < MaxOps
    /\ UNCHANGED <<remote, views, caches, bulkVars, fltVars>>
    /\ \E endpoint \in {MutationEndpoint(rec)} :
         IF endpoint.raised # "none"
         THEN /\ outcome' = Raised("delete", endpoint.raised)
              /\ UNCHANGED <<rec, server, calls, assigned>>
         ELSE \E answer \in {ServerRequest("delete", endpoint.value, <<>>)} :
                /\ Request("delete", endpoint.value, <<>>, answer)
                /\ rec' = FinalizeDelete(rec)
                /\ outcome' = Raised("delete", IF answer.status \notin 200..299
                                               THEN "SugarError" ELSE "none")
                /\ UNCHANGED assigned

\* SyncModule.delete
Delete ==
    /\ outcome.n < MaxOps
    /\ UNCHANGED <<remote, views, caches, bulkVars, fltVars>>
    /\ \E endpoint \in {MutationEndpoint(rec)} :
         IF endpoint.raised # "none"
         THEN /\ outcome' = Raised("delete", endpoint.raised)
              /\ UNCHANGED <<rec, server, calls, assigned>>
         ELSE \E answer \in {ServerRequest("delete", endpoint.value, <<>>)} :
                /\ Request("delete", endpoint.value, <<>>, answer)
                /\ IF answer.status \notin 200..299
                   THEN /\ outcome' = Raised("delete", "SugarError")
                        /\ UNCHANGED <<rec, assigned>>
                   ELSE /\ rec' = FinalizeDelete(rec)
                        /\ outcome' = Raised("delete", "none")
                        /\ UNCHANGED assigned

\* SyncModule.refresh
Refresh ==
    /\ outcome.n < MaxOps
    /\ UNCHANGED <<remote, views, caches, bulkVars, fltVars>>
    /\ \E endpoint \in {MutationEndpoint(rec)} :
         IF endpoint.raised # "none"
         THEN /\ outcome' = Raised("refresh", endpoint.raised)
              /\ UNCHANGED <<rec, server, calls, assigned>>
         ELSE \E answer \in {ServerRequest("get", endpoint.value, <<>>)} :
                /\ Request("get", endpoint.value, <<>>, answer)
                /\ IF answer.status \notin 200..299
                   THEN /\ outcome' = Raised("refresh", "SugarError")
                        /\ UNCHANGED <<rec, assigned>>
                   ELSE \E fin \in {FinalizeRefresh(rec, answer.body)} :
                          /\ rec' = fin.rec
                          /\ outcome' = Raised("refresh", fin.raised)
                          /\ assigned' = IF fin.raised = "none" THEN <<>> ELSE assigned

\* Someone else changes a field of a stored record.
ServerEdit(id, name, value) ==
    /\ Stored(id)
    /\ UNCHANGED <<remote, views, caches, bulkVars, fltVars>>
    /\ name \in DOMAIN server[id]
    /\ server[id][name] # value
    /\ server' = [server EXCEPT ![id][name] = value]
    /\ UNCHANGED <<rec, calls, outcome, assigned>>

\* The keyword arguments Demo(**data) is called with.
InitData ==
    {[key \in keys |-> CASE key = ID -> ServerIds[1]
                         [] key = ModuleKey -> ApiName
                         [] OTHER -> <<"x">>] :
         keys \in SUBSET (FieldNames \cup {ID, ModuleKey})}

\* A record was constructed; the server holds one record of the module or none.
InitRecords ==
    /\ remote = <<>>
    /\ views = (<<>> :> NewView(1))
    /\ caches = << <<>> >>
    /\ NoBulk
    /\ rec \in {SetData([original |-> <<>>, updated |-> <<>>], data).rec : data \in InitData}
    /\ server \in {<<>>, (ServerIds[1] :>
                            [key \in FieldNames \cup {ID} |->
                                IF key = ID THEN ServerIds[1] ELSE <<"x">>])}
    /\ calls = <<>>
    /\ outcome = [op |-> "init", raised |-> "none", n |-> 0]
    /\ assigned = <<>>
    /\ NoFilters

NextRecords ==
    \/ \E name \in FieldNames, value \in FieldValues : Assign(name, value)
    \/ Save
    \/ Delete
    \/ Refresh
    \/ \E id \in DOMAIN server, name \in FieldNames, value \in FieldValues :
           ServerEdit(id, name, value)

\* One record object and the operations on it.
SpecRecords == InitRecords /\ [][NextRecords]_vars

\* ------------------------------------------------------ claims on records
\* The step is a call of the named operation on the record.
Called(op) == outcome'.op = op /\ outcome'.n = outcome.n + 1
\* The step makes exactly one call through the client.
OneCall == Len(calls') = Len(calls) + 1 /\ SubSeq(calls', 1, Len(calls)) = calls
\* The record's data as its fields read it: updated over original.
Merged(self) == self.updated @@ self.original

\* C22: save() on a record without an id makes one call, a POST to the
\* module's endpoint with every field of the record (updated over original);
\* save() on a record with an id makes one call, a PUT to module/ID with
\* exactly the fields assigned since the last save or refresh.
C22_SaveCreatesOrUpdates ==
    [][Called("save") =>
         /\ OneCall
         /\ IF ID \notin DOMAIN Merged(rec)
            THEN calls'[Len(calls')] =
                     [method |-> "post", endpoint |-> ApiName, json |-> Merged(rec)]
            ELSE calls'[Len(calls')] =
                     [method |-> "put",
                      endpoint |-> ApiName \o <<"/">> \o Merged(rec)[ID],
                      json |-> assigned]]_vars

\* A new record was created with two fields and then updated with one.
C22_Witness ==
    /\ Len(calls) = 2
    /\ calls[1].method = "post" /\ Cardinality(DOMAIN calls[1].json) = 2
    /\ calls[2].method = "put" /\ Cardinality(DOMAIN calls[2].json) = 1
    /\ outcome.op = "save" /\ outcome.raised = "none"

\* C23, as stated: after a successful save() the original data is the old
\* original data overlaid with the old updated data, and nothing is updated.
C23_SaveMergesLocally ==
    [][Called("save") /\ outcome'.raised = "none" =>
         rec'.original = Merged(rec) /\ rec'.updated = <<>>]_vars

\* C23, amended: after a successful save() the original data is the record
\* the server answered with, without underscore-prefixed keys: it holds the
\* id (the one the server assigned, on a create), every field that was sent
\* with the value sent, and the server's values for the rest; nothing is
\* updated.
C23_SaveTakesServerAnswer ==
    [][Called("save") /\ outcome'.raised = "none" =>
         /\ rec'.updated = <<>>
         /\ ID \in DOMAIN rec'.original
         /\ rec'.original = server'[rec'.original[ID]]
         /\ ID \in DOMAIN Merged(rec) => rec'.original[ID] = Merged(rec)[ID]
         /\ \A key \in DOMAIN rec'.original : ~StartsWithUnderscore(key)
         /\ LET json == calls'[Len(calls')].json
            IN  \A key \in DOMAIN json : rec'.original[key] = json[key]]_vars

\* A record was updated and took over a value that someone else had stored
\* on the server in the meantime.
C23_Witness ==
    /\ outcome.op = "save" /\ outcome.raised = "none"
    /\ Len(calls) = 1 /\ calls[1].method = "put"
    /\ \E key \in FieldNames \ DOMAIN calls[1].json :
           key \in DOMAIN rec.original /\ rec.original[key] = <<"y">>

\* C24: after a successful delete() the original data is the old data
\* (updated over original) without the id, nothing is updated, and every
\* field other than the id reads as it did before.
C24_DeleteKeepsData ==
    [][Called("delete") /\ outcome'.raised = "none" =>
         /\ rec'.original = [key \in DOMAIN Merged(rec) \ {ID} |-> Merged(rec)[key]]
         /\ rec'.updated = <<>>
         /\ \A key \in FieldNames : GetItem(rec', key) = GetItem(rec, key)]_vars

\* A record with an assigned, unsaved field was deleted.
C24_Witness ==
    /\ outcome.op = "delete" /\ outcome.raised = "none"
    /\ Len(calls) = 1 /\ calls[1].method = "delete"
    /\ ID \notin DOMAIN rec.original
    /\ \E key \in DOMAIN rec.original : rec.original[key] = <<"y">>

\* C25: a deleted record is a new record: it has no id, and a save() that
\* follows the delete() makes one call, a POST to the module's endpoint with
\* all the fields the record holds and no id.
C25_SaveAfterDeleteCreates ==
    /\ [](outcome.op = "delete" /\ outcome.raised = "none" => GetData(rec, ID) = None)
    /\ [][outcome.op = "delete" /\ outcome.raised = "none" /\ Called("save") =>
            /\ OneCall
            /\ calls'[Len(calls')].method = "post"
            /\ calls'[Len(calls')].endpoint = ApiName
            /\ calls'[Len(calls')].json = rec.original
            /\ ID \notin DOMAIN calls'[Len(calls')].json]_vars

\* A record was deleted and then saved again, with a field to send.
C25_Witness ==
    /\ Len(calls) = 2
    /\ calls[1].method = "delete"
    /\ calls[2].method = "post" /\ calls[2].json # <<>>
    /\ outcome.op = "save" /\ outcome.raised = "none"

\* C26: after a successful refresh() the original data is the server's
\* response without its underscore-prefixed keys and nothing is updated: the
\* assignments that were not saved are gone.
C26_RefreshReplacesData ==
    [][Called("refresh") /\ outcome'.raised = "none" =>
         LET response == Rendered(server[Merged(rec)[ID]])
         IN  /\ rec'.original =
                    [key \in {k \in DOMAIN response : k[1] # "_"} |-> response[key]]
             /\ rec'.updated = <<>>
             /\ \A key \in FieldNames :
                    GetData(rec', key) = IF key \in DOMAIN response THEN response[key]
                                         ELSE None]_vars

\* A record was refreshed after an assignment that was never saved.
C26_Witness ==
    /\ outcome = [op |-> "refresh", raised |-> "none", n |-> 2]
    /\ Len(calls) = 1 /\ calls[1].method = "get"
    /\ rec.updated = <<>>

\* --------------------------------------------------------------- equality
\* Module classes: the classes a class is or derives from and, for a bound
\* class, its _api_name and its client. DemoAgain is
\* class DemoAgain(Demo, client=client, api_name="Demo"), DemoElsewhere is
\* class DemoElsewhere(Demo, client=other_client, api_name="Demo").
Classes ==
    [BaseDemo |-> [mro |-> {"BaseDemo"}, bound |-> FALSE],
     BaseSub |-> [mro |-> {"BaseSub", "BaseDemo"}, bound |-> FALSE],
     BaseDeno |-> [mro |-> {"BaseDeno"}, bound |-> FALSE],
     Demo |-> [mro |-> {"Demo", "BaseDemo"}, bound |-> TRUE,
               api_name |-> ApiName, client |-> 1],
     DemoAgain |-> [mro |-> {"DemoAgain", "Demo", "BaseDemo"}, bound |-> TRUE,
                    api_name |-> ApiName, client |-> 1],
     DemoElsewhere |-> [mro |-> {"DemoElsewhere", "Demo", "BaseDemo"}, bound |-> TRUE,
                        api_name |-> ApiName, client |-> 2]]

\* isinstance(obj, cls)
IsInstance(obj, cls) == cls \in Classes[obj.type].mro

\* A BaseModule.__eq__ that does not look at the other's type.
BaseEqAnyType(self, other) ==
    IF GetItem(self, ID).raised = "KeyError" \/ GetItem(other, ID).raised = "KeyError"
    THEN FALSE
    ELSE GetItem(self, ID).value = GetItem(other, ID).value

\* BaseModule.__eq__
BaseEq(self, other) ==
    IF IsInstance(other, self.type)
    THEN IF GetItem(self, ID).raised = "KeyError" \/ GetItem(other, ID).raised = "KeyError"
         THEN FALSE
         ELSE IF GetItem(self, ID).value # GetItem(other, ID).value
              THEN FALSE
              ELSE TRUE
    ELSE FALSE

\* BoundModule.__eq__
BoundEq(self, other) ==
    IF /\ IsInstance(other, self.type)
       /\ \/ Classes[self.type].api_name # Classes[other.type].api_name
          \/ Classes[self.type].client # Classes[other.type].client
    THEN FALSE
    ELSE BaseEq(self, other)

\* a == b: the __eq__ of b's class goes first when it is a proper subclass of
\* a's class; neither __eq__ returns NotImplemented.
PyEq(a, b) ==
    LET first == IF a.type # b.type /\ IsInstance(b, a.type) THEN b ELSE a
        second == IF first = a THEN b ELSE a
    IN  IF Classes[first.type].bound THEN BoundEq(first, second)
        ELSE BaseEq(first, second)

\* Records of every class, without an id and with one of two ids.
OtherRecords ==
    {[type |-> type, original |-> data, updated |-> <<>>] :
         type \in DOMAIN Classes,
         data \in {<<>>} \cup {(ID :> ServerIds[i]) : i \in 1..2}}

\* C27: two records are equal exactly if they are of the same class and have
\* the same id; a record without an id is equal to no record, itself
\* included. It is checked for the Demo record of the state against records
\* of every class, both ways round, and for all pairs of those.
C27_EqualIffSameTypeAndId ==
    LET this == [type |-> "Demo", original |-> rec.original, updated |-> rec.updated]
        Same(a, b) == /\ a.type = b.type
                      /\ ID \in DOMAIN Merged(a) /\ ID \in DOMAIN Merged(b)
                      /\ Merged(a)[ID] = Merged(b)[ID]
    IN  /\ \A other \in OtherRecords \cup {this} :
               /\ PyEq(this, other) <=> Same(this, other)
               /\ PyEq(other, this) <=> Same(other, this)
        /\ outcome.n = 0 => \A a, b \in OtherRecords : PyEq(a, b) <=> Same(a, b)

\* A new record was saved: with the id the server gave it, it is equal to
\* exactly one of the other records, the Demo record with that id.
C27_Witness ==
    /\ outcome.op = "save" /\ outcome.raised = "none"
    /\ Len(calls) = 1 /\ calls[1].method = "post"
    /\ LET this == [type |-> "Demo", original |-> rec.original, updated |-> rec.updated]
       IN  {other \in OtherRecords : PyEq(this, other)} =
               {[type |-> "Demo", original |-> (ID :> rec.original[ID]),
                 updated |-> <<>>]}

\* C28: delete() and refresh() on a record without an id raise
\* UnsavedRecordError, make no call and leave the record's data as it was.
C28_UnsavedRecordRaises ==
    [][(Called("delete") \/ Called("refresh")) /\ ID \notin DOMAIN Merged(rec) =>
         /\ outcome'.raised = "UnsavedRecordError"
         /\ calls' = calls
         /\ server' = server
         /\ rec' = rec]_vars

\* A record was deleted, then assigned to, and its refresh raised.
C28_Witness ==
    /\ outcome.op = "refresh" /\ outcome.raised = "UnsavedRecordError"
    /\ Len(calls) = 1 /\ calls[1].method = "delete"
    /\ rec.updated # <<>>

\* ------------------------------------------------------------ filter sets
\* A mutable mapping is an object on the heap: one key, and under it a
\* number ({"a": 1}) or a list of further mappings ({"c": [{"n": 1}]},
\* {"$or": [...]}). A list is held by one mapping only, so it is kept in it.
\* Most build_filter() calls, and most mutations, in one behaviour.
MaxBuilds == 2
MaxMutations == 2
\* Most parts given to the FilterSet whose flattening is checked.
MaxParts == 3

Combinators == {"$and", "$or"}

IsList(obj) == "list" \in DOMAIN obj.val

RECURSIVE DeepCopy(_, _), DeepCopyAll(_, _)
\* A copy of the mappings at addrs that shares the lists' members.
DeepCopyAllShallow(h, addrs) ==
    [heap |-> h \o [i \in 1..Len(addrs) |-> h[addrs[i]]],
     addrs |-> [i \in 1..Len(addrs) |-> Len(h) + i]]

\* copy.deepcopy of one mapping: the heap with the copy as its last object.
DeepCopy(h, addr) ==
    IF IsList(h[addr])
    THEN The({Append(inner.heap, [key |-> h[addr].key, val |-> [list |-> inner.addrs]]) :
                 inner \in {DeepCopyAll(h, h[addr].val.list)}})
    ELSE Append(h, h[addr])

\* copy.deepcopy of each of the mappings at addrs, in order: the heap after
\* it and the addresses of the copies.
DeepCopyAll(h, addrs) ==
    IF addrs = <<>> THEN [heap |-> h, addrs |-> <<>>]
    ELSE The({The({[heap |-> rest.heap, addrs |-> <<Len(copied)>> \o rest.addrs] :
                      rest \in {DeepCopyAll(copied, Tail(addrs))}}) :
                 copied \in {DeepCopy(h, Head(addrs))}})

\* The JSON value of the mapping at addr.
RECURSIVE Deref(_, _)
Deref(h, addr) ==
    IF IsList(h[addr])
    THEN [key |-> h[addr].key,
          val |-> [list |-> [i \in 1..Len(h[addr].val.list) |->
                                 Deref(h, h[addr].val.list[i])]]]
    ELSE h[addr]

\* FilterSet.build_filter: the heap with the returned mapping as its last
\* object. The parts of a constructed FilterSet are mappings, never filters.
BuildFilter(h, self) ==
    The({Append(copies.heap, [key |-> self.combinator, val |-> [list |-> copies.addrs]]) :
            copies \in {DeepCopyAll(h, self.parts)}})

\* What FilterSet.build_filter returns, as a JSON value.
BuildFilterValue(h, self) == The({Deref(b, Len(b)) : b \in {BuildFilter(h, self)}})

\* A merge condition that takes in every nested FilterSet.
MergesAlways(part, combinator, merge_other) == TRUE

\* FilterSet.__init__: whether the nested FilterSet part is merged into self.
Merges(part, combinator, merge_other) ==
    \/ part.set.combinator = combinator
    \/ Len(part.set.parts) < 2
    \/ merge_other

\* The loop of FilterSet.__init__ from index on (counted from 1): the heap
\* after it and the FilterSet. A part is None, a mapping, a filter whose
\* build_filter() returns the mapping it holds, or a FilterSet.
RECURSIVE FilterSetLoop(_, _, _, _, _)
FilterSetLoop(h, combinator, self_combinator, parts, index) ==
    IF index > Len(parts)
    THEN [heap |-> h,
          set |-> [combinator |-> self_combinator,
                   parts |-> [i \in 1..Len(parts) |-> parts[i].addr]]]
    ELSE LET part == parts[index]
             before == SubSeq(parts, 1, index - 1)
             after == SubSeq(parts, index + 1, Len(parts))
             merge_other ==
                 \A i \in 1..Len(parts) :
                     \/ parts[i].kind = "none"
                     \/ parts[i].kind = "set" /\ parts[i].oid = part.oid
         IN  IF part.kind = "none"
             THEN FilterSetLoop(h, combinator, self_combinator, before \o after, index)
             ELSE IF part.kind = "set" /\ Merges(part, combinator, merge_other)
             THEN FilterSetLoop(
                      h, combinator,
                      IF merge_other THEN part.set.combinator ELSE self_combinator,
                      before \o [i \in 1..Len(part.set.parts) |->
                                    [kind |-> "mapping", addr |-> part.set.parts[i]]]
                             \o after,
                      index)
             ELSE The({The({FilterSetLoop(
                                copied, combinator, self_combinator,
                                [parts EXCEPT ![index] =
                                     [kind |-> "mapping", addr |-> Len(copied)]],
                                index + 1) :
                            copied \in {DeepCopy(h_built,
                                                 IF part.kind = "set" THEN Len(h_built)
                                                 ELSE part.addr)}}) :
                       h_built \in {IF part.kind = "set" THEN BuildFilter(h, part.set)
                                    ELSE h}})

\* FilterSet(combinator, *given_parts)
FilterSetInit(h, combinator, given_parts) ==
    FilterSetLoop(h, combinator, combinator, given_parts, 1)

\* The mappings the caller holds before any FilterSet is constructed:
\* {"a": 1}, {"b": 1}, and DummyFilter.x = {"c": [{"n": 1}]}.
SourceHeap ==
    <<[key |-> "a", val |-> [int |-> 1]],
      [key |-> "b", val |-> [int |-> 1]],
      [key |-> "c", val |-> [list |-> <<4>>]],
      [key |-> "n", val |-> [int |-> 1]]>>

\* The argument lists of at most n parts out of a set.
PartLists(from, n) == UNION {[1..k -> from] : k \in 0..n}

\* FilterSet(combinator, *parts) was constructed, from None, {"a": 1}, a
\* DummyFilter and FilterSets constructed before it: inner, from {"b": 1} and
\* a DummyFilter, and, if nested is set, one more that may hold inner.
Constructed(n, nested) ==
    \E inner_args \in Combinators \X PartLists({[kind |-> "mapping", addr |-> 2],
                                                [kind |-> "filter", addr |-> 3]}, 2) :
    \E inner \in {FilterSetInit(SourceHeap, inner_args[1], inner_args[2])} :
    \E middle_args \in IF nested
                       THEN Combinators \X
                                PartLists({[kind |-> "mapping", addr |-> 2],
                                           [kind |-> "set", oid |-> 1, set |-> inner.set]}, 2)
                       ELSE {<<"$and", <<>> >>} :
    \E middle \in {FilterSetInit(inner.heap, middle_args[1], middle_args[2])} :
    \E args \in Combinators \X
                    PartLists({[kind |-> "none"],
                               [kind |-> "mapping", addr |-> 1],
                               [kind |-> "filter", addr |-> 3],
                               [kind |-> "set", oid |-> 1, set |-> inner.set]}
                              \cup IF nested
                                   THEN {[kind |-> "set", oid |-> 2, set |-> middle.set]}
                                   ELSE {}, n) :
    \E self \in {FilterSetInit(middle.heap, args[1], args[2])} :
        /\ heap = self.heap
        /\ given = [combinator |-> args[1], parts |-> args[2]]
        /\ filterset = self.set
        /\ built = {}
        /\ rendered = BuildFilterValue(self.heap, self.set)

\* One FilterSet, built from and mutated around.
InitFilters ==
    /\ remote = <<>>
    /\ views = (<<>> :> NewView(1))
    /\ caches = << <<>> >>
    /\ NoBulk
    /\ NoRecord
    /\ Constructed(2, FALSE)

\* The objects the caller can get at from the mappings it holds.
RECURSIVE Reach(_, _)
Reach(h, held) ==
    LET more == held \cup UNION {{h[a].val.list[i] : i \in 1..Len(h[a].val.list)} :
                                    a \in {x \in held : IsList(h[x])}}
    IN  IF more = held THEN held ELSE Reach(h, more)

\* filterset.build_filter(): the caller gets the returned mapping.
Build ==
    /\ Cardinality(built) < MaxBuilds
    /\ heap' = BuildFilter(heap, filterset)
    /\ built' = built \cup {Len(heap')}
    /\ UNCHANGED <<remote, views, caches, bulkVars, recVars, given, filterset, rendered>>

\* mapping[key] = 2, on a source mapping, on the mapping a filter returns
\* from build_filter(), on a result of filterset.build_filter(), or on a
\* mapping inside one of them.
Mutate(addr) ==
    /\ addr \in Reach(heap, (1..Len(SourceHeap)) \cup built)
    /\ heap[addr].val # [int |-> 2]
    /\ Cardinality({a \in 1..Len(heap) : heap[a].val = [int |-> 2]}) < MaxMutations
    /\ heap' = [heap EXCEPT ![addr].val = [int |-> 2]]
    /\ UNCHANGED <<remote, views, caches, bulkVars, recVars, given, filterset, built,
                   rendered>>

NextFilters ==
    \/ Build
    \/ \E addr \in 1..Len(heap) : Mutate(addr)

\* A FilterSet, the mappings it was made from and the mappings it returns.
SpecFilters == InitFilters /\ [][NextFilters]_vars

\* C29: whatever the caller does to the mappings it holds (the sources, the
\* mapping a source filter returns, earlier results of build_filter()),
\* build_filter() returns what it returned right after the construction.
C29_FilterSetImmutable == BuildFilterValue(heap, filterset) = rendered

\* The mapping inside DummyFilter.x and a mapping inside a returned result
\* were both changed, with the DummyFilter among the parts.
C29_Witness ==
    /\ heap[4].val = [int |-> 2]
    /\ \E i \in 1..Len(given.parts) : given.parts[i].kind = "filter"
    /\ \E addr \in Reach(heap, built) \ built : heap[addr].val = [int |-> 2]

\* ------------------------------------------------- flattening filter sets
InitFlatten ==
    /\ remote = <<>>
    /\ views = (<<>> :> NewView(1))
    /\ caches = << <<>> >>
    /\ NoBulk
    /\ NoRecord
    /\ Constructed(MaxParts, TRUE)

NextFlatten == Build

\* FilterSets of up to three parts, two levels of nested FilterSets among them.
SpecFlatten == InitFlatten /\ [][NextFlatten]_vars

\* The expression the arguments of a FilterSet stand for, nothing merged: a
\* nested FilterSet is what it builds, None is no condition.
Unflattened(h, args) ==
    [key |-> args.combinator,
     val |-> [list |-> [i \in 1..Len(args.parts) |->
                 CASE args.parts[i].kind = "none" -> [key |-> "none"]
                   [] args.parts[i].kind = "set" -> BuildFilterValue(h, args.parts[i].set)
                   [] OTHER -> Deref(h, args.parts[i].addr)]]]

\* Whether a record matches the expression, truth telling which of the
\* conditions a, b and c it meets: "T", "F", or "N" where the expression
\* holds no condition at all ($and and $or pass over such parts).
RECURSIVE Meaning(_, _)
Meaning(expr, truth) ==
    IF expr.key = "none" THEN "N"
    ELSE IF expr.key \in Combinators
    THEN LET parts == {Meaning(expr.val.list[i], truth) :
                           i \in 1..Len(expr.val.list)} \ {"N"}
         IN  IF parts = {} THEN "N"
             ELSE IF expr.key = "$and"
                  THEN (IF "F" \in parts THEN "F" ELSE "T")
                  ELSE (IF "T" \in parts THEN "T" ELSE "F")
    ELSE IF truth[expr.key] THEN "T" ELSE "F"

\* The conditions of the expressions, in the order they are written in.
RECURSIVE Conditions(_)
Conditions(exprs) ==
    IF exprs = <<>> THEN <<>>
    ELSE (IF Head(exprs).key = "none" THEN <<>>
          ELSE IF Head(exprs).key \in Combinators THEN Conditions(Head(exprs).val.list)
          ELSE <<Head(exprs).key>>) \o Conditions(Tail(exprs))

\* C30: the expression a FilterSet builds is equivalent to the one its
\* arguments stand for and holds the same conditions in the same order; the
\* parts of a nested FilterSet with the parent's combinator or with fewer
\* than two parts are parts of the parent; a nested FilterSet that is the
\* only part takes the parent's place; None adds no part.
C30_FlatteningKeepsMeaning ==
    LET flat == BuildFilterValue(heap, filterset)
        nested == Unflattened(heap, given)
        sets == {i \in 1..Len(given.parts) : given.parts[i].kind = "set"}
        some == {i \in 1..Len(given.parts) : given.parts[i].kind # "none"}
    IN  /\ \A truth \in [{"a", "b", "c"} -> BOOLEAN] :
               Meaning(flat, truth) = Meaning(nested, truth)
        /\ Conditions(<<flat>>) = Conditions(<<nested>>)
        /\ \A i \in sets :
               \/ given.parts[i].set.combinator = given.combinator
               \/ Len(given.parts[i].set.parts) < 2
               => \E k \in 0..Len(flat.val.list) :
                      /\ k + Len(nested.val.list[i].val.list) <= Len(flat.val.list)
                      /\ SubSeq(flat.val.list, k + 1,
                                k + Len(nested.val.list[i].val.list))
                             = nested.val.list[i].val.list
        /\ \A i \in sets : some = {i} => flat = nested.val.list[i]
        /\ sets = {} => Len(flat.val.list) = Cardinality(some)

\* FilterSet($and, {"a": 1}, FilterSet($or, {"b": 1})) was built: it is
\* {"$and": [{"a": 1}, {"b": 1}]}.
C30_Witness ==
    /\ built # {}
    /\ given.combinator = "$and"
    /\ Len(given.parts) = 2
    /\ given.parts[1] = [kind |-> "mapping", addr |-> 1]
    /\ given.parts[2].kind = "set"
    /\ given.parts[2].set.combinator = "$or"
    /\ Len(given.parts[2].set.parts) = 1
    /\ rendered = [key |-> "$and",
                   val |-> [list |-> <<[key |-> "a", val |-> [int |-> 1]],
                                       [key |-> "b", val |-> [int |-> 1]]>>]]
    /\ \E addr \in built : Deref(heap, addr) = rendered

\* ------------------------------------------------- index and offset lookups
\* _offset_to_index returning None.
NoIndex == -1

\* offset in range
RangeContains(r, offset) ==
    IF r.step > 0
    THEN r.start <= offset /\ offset < r.stop /\ (offset - r.start) % r.step = 0
    ELSE IF r.step < 0
    THEN r.stop < offset /\ offset <= r.start
         /\ (r.start - offset) % (0 - r.step) = 0
    ELSE FALSE

\* range.index(offset) for an offset the range contains
RangeIndex(r, offset) ==
    IF r.step > 0
    THEN (offset - r.start) \div r.step
    ELSE (r.start - offset) \div (0 - r.step)

\* _offset_to_index that counts positions from the lowest offset of the window.
OffsetToIndexFromLowest(range, offset) ==
    IF RangeContains(range, offset)
    THEN IF range.step > 0 THEN RangeIndex(range, offset)
         ELSE RangeLen(range) - 1 - RangeIndex(range, offset)
    ELSE NoIndex

\* View._offset_to_index
OffsetToIndex(range, offset) ==
    IF RangeContains(range, offset) THEN RangeIndex(range, offset) ELSE NoIndex

\* The indexes and offsets the lookups are asked for.
LookupIndexes == (0 - MaxRecords - 1) .. (MaxRecords + 1)
LookupOffsets == (0 - 2) .. (MaxRecords + 2)

\* C34: on a resolved window the two lookups are inverse to each other: every
\* index inside the window maps to an offset that maps back to it, every
\* offset of the window maps to an index that maps back to it, an index that
\* is negative or past the end has no offset, and an offset outside the
\* window has no index.
C34_LookupsAreInverse ==
    \A path \in Paths :
        LET range == views[path].range
            inside == {Window(range)[k] : k \in 1..RangeLen(range)}
        IN  range # NoRange =>
            /\ \A i \in LookupIndexes :
                  IF 0 <= i /\ i < RangeLen(range)
                  THEN /\ IndexToOffset(range, i) = Window(range)[i + 1]
                       /\ OffsetToIndex(range, IndexToOffset(range, i)) = i
                  ELSE IndexToOffset(range, i) = NoOffset
            /\ \A o \in LookupOffsets :
                  IF o \in inside
                  THEN /\ OffsetToIndex(range, o) # NoIndex
                       /\ IndexToOffset(range, OffsetToIndex(range, o)) = o
                  ELSE OffsetToIndex(range, o) = NoIndex

\* A descending window of at least two offsets that leaves out an offset of
\* the collection has been looked up by index.
C34_Witness ==
    \E path \in Paths :
        LET range == views[path].range
        IN  /\ range # NoRange
            /\ range.step < 0
            /\ RangeLen(range) >= 2
            /\ \E o \in 0..(MaxRecords - 1) : ~RangeContains(range, o)
            /\ \E offset \in DOMAIN CacheOf(path) : RangeContains(range, offset)

\* ------------------------------------------- iteration over missing records
\* The number of requests for the record at an offset.
Fetches(reqs, offset) ==
    Len(SelectSeq(reqs, LAMBDA r : r.url = "get" /\ r.offset = offset))

\* The record iteration has to yield for an offset: the cached one, else the
\* one the collection has there, else none.
RecordIdAt(view, cache, offset) ==
    IF offset \in DOMAIN cache /\ cache[offset] # NoneRec THEN cache[offset].id
    ELSE IF offset < ServerCount(view.filter)
    THEN ServerSelect(view.filter)[offset + 1]
    ELSE 0

\* C32: synchronous iteration passes over an offset of the window whose fetch
\* returns no record and goes on with the offsets after it: it does not raise,
\* it yields the records of all other offsets in window order, it requests
\* every offset that is not in the cache exactly once, requests no offset
\* twice and requests no offset whose record is cached.
C32_IterationSkipsMissing ==
    \A path \in Paths :
        LET view  == views[path]
            cache == CacheOf(path)
            calc  == CalculateRange(view)
            r     == IterateResult(view, cache)
            W     == Window(r.view.range)
            found == SelectSeq(W, LAMBDA o : RecordIdAt(view, cache, o) # 0)
        IN  calc.raised = "" =>
                /\ r.raised = ""
                /\ Ids(r.records) =
                       [k \in 1..Len(found) |-> RecordIdAt(view, cache, found[k])]
                /\ \A k \in 1..Len(W) :
                       /\ W[k] \notin DOMAIN cache => Fetches(r.reqs, W[k]) = 1
                       /\ Fetches(r.reqs, W[k]) <= 1
                       /\ (W[k] \in DOMAIN cache /\ cache[W[k]] # NoneRec)
                              => Fetches(r.reqs, W[k]) = 0
                       /\ W[k] \in DOMAIN r.cache

\* A descending window whose first offset was fetched and had no record, the
\* collection having shrunk, while iteration still yields the records of the
\* offsets after it.
C32_Witness ==
    \E path \in Paths :
        LET view  == views[path]
            cache == CacheOf(path)
            r     == IterateResult(view, cache)
        IN  /\ view.range # NoRange
            /\ view.pending = <<>>
            /\ RangeLen(view.range) = 3
            /\ view.range.step < 0
            /\ view.range.start \in DOMAIN cache
            /\ cache[view.range.start] = NoneRec
            /\ view.range.start >= Len(remote)
            /\ Len(r.records) >= 1

\* ------------------------------------- asynchronous and synchronous iteration
\* C31: asynchronous iteration of a view yields the records synchronous
\* iteration of the same view yields against the same collection, in the same
\* order, also when an offset inside the window has no record.
C31_AsyncIterationEqualsSync ==
    \A path \in Paths :
        \A sync \in {IterateResult(views[path], CacheOf(path))} :
            \A async \in {AsyncIterateResult(views[path], CacheOf(path))} :
                /\ async.raised = sync.raised
                /\ Ids(async.records) = Ids(sync.records)

\* ------------------------------------- concurrent resolution of one view
\* C37: when the actions of one bulk() resolve a view that had no window at
\* the call, then once all of them have finished the window of the view is
\* range(0, count) with the slices that were pending at the call applied one
\* after another, each once, and no slice is pending any more.
C37_ConcurrentResolution ==
    (coord.pc # "idle" /\ \A k \in DOMAIN tasks : Done(tasks[k])) =>
        \A k \in DOMAIN tasks :
            LET start   == coord.start.views[tasks[k].path]
                now     == views[tasks[k].path]
                count   == IF start.size = NoSize THEN ServerCount(start.filter)
                           ELSE start.size
                applied == ApplyPending(Range(0, count, 1), start.pending)
            IN  (start.range = NoRange /\ applied.raised = "") =>
                    /\ now.size = count
                    /\ now.range = applied.range
                    /\ now.pending = <<>>

\* Two actions of one bulk() have both counted the same view, which was sliced
\* downwards and had no window at the call, and both have finished.
C37_Witness ==
    /\ coord.pc # "idle"
    /\ Len(tasks) = 2
    /\ \A k \in DOMAIN tasks : Done(tasks[k])
    /\ tasks[1].path = tasks[2].path
    /\ coord.start.views[tasks[1].path].range = NoRange
    /\ coord.start.views[tasks[1].path].size = NoSize
    /\ coord.start.views[tasks[1].path].pending # <<>>
    /\ \A k \in DOMAIN tasks : \E g \in tasks[k].got : g.seq = 1 /\ g.item.contents[1].count = 3
    /\ views[tasks[1].path].range = Range(2, -1, -1)

\* ------------------------------------------------ calls that raise
\* C39: when the call that save(), delete() or refresh() makes through the
\* client raises, the record's original data and its updated data are what
\* they were before the operation, and a later save() would send what it
\* would have sent before.
C39_FailedCallKeepsData ==
    [][((Called("save") \/ Called("delete") \/ Called("refresh"))
            /\ OneCall /\ outcome'.raised = "SugarError") =>
         /\ rec'.original = rec.original
         /\ rec'.updated = rec.updated
         /\ PrepareSave(rec') = PrepareSave(rec)]_vars

\* A record with assigned fields whose delete() was answered with an error,
\* after which save() was answered with an error too.
C39_Witness ==
    /\ outcome.op = "save" /\ outcome.raised = "SugarError"
    /\ Len(calls) >= 2
    /\ calls[Len(calls)].method = "put"
    /\ calls[Len(calls) - 1].method = "delete"
    /\ rec.updated # <<>>
    /\ ID \in DOMAIN rec.original

\* ------------------------------------------------ original and updated data
\* C40: assigning a field writes the value into the updated data and leaves
\* the original data alone; reading a field gives the updated value when
\* there is one and the original value otherwise (KeyError when there is
\* neither); the original data changes only in a save(), delete() or
\* refresh() that completes without raising.
C40_AssignmentWritesUpdatedOnly ==
    /\ [][Called("assign") =>
            /\ rec'.original = rec.original
            /\ DOMAIN rec.updated \subseteq DOMAIN rec'.updated
            /\ \E name \in FieldNames :
                  /\ DOMAIN rec'.updated = DOMAIN rec.updated \cup {name}
                  /\ \A key \in DOMAIN rec.updated \ {name} :
                         rec'.updated[key] = rec.updated[key]
                  /\ GetItem(rec', name) =
                         [raised |-> "none", value |-> assigned'[name]]
            /\ calls' = calls]_vars
    /\ [](\A key \in FieldNames \cup {ID} :
              GetItem(rec, key) =
                  IF key \in DOMAIN rec.updated
                  THEN [raised |-> "none", value |-> rec.updated[key]]
                  ELSE IF key \in DOMAIN rec.original
                  THEN [raised |-> "none", value |-> rec.original[key]]
                  ELSE [raised |-> "KeyError", value |-> None])
    /\ [][rec'.original # rec.original =>
            /\ Called("save") \/ Called("delete") \/ Called("refresh")
            /\ outcome'.raised = "none"]_vars

\* A field that the original data holds with one value was assigned another
\* one: the record holds both.
C40_Witness ==
    /\ outcome.op = "assign"
    /\ \E name \in FieldNames :
           /\ name \in DOMAIN rec.original
           /\ name \in DOMAIN rec.updated
           /\ rec.original[name] # rec.updated[name]
    /\ Len(calls) >= 1

\* ------------------------------------------------- termination of bulk()
\* Every POST /bulk comes back as a list with one well-formed element for
\* each request of the batch.
NextBulkWellFormed ==
    \/ TokenExpires
    \/ \E k \in DOMAIN tasks : TaskWorkDone(k)
    \/ \E k \in DOMAIN tasks, key \in events : TaskResume(k, key)
    \/ CoordLoop
    \/ CoordAuthDone
    \/ CoordReceive("ok")

\* The event loop runs whatever is ready: an action whose other work is over
\* or whose event is set goes on, bulk() goes on when it has nothing to wait
\* for or counting_event is set, and every request sent is answered.
SpecBulkLive ==
    /\ InitBulk
    /\ [][NextBulkWellFormed]_vars
    /\ WF_vars(\E k \in DOMAIN tasks : TaskWorkDone(k))
    /\ WF_vars(\E k \in DOMAIN tasks, key \in events : TaskResume(k, key))
    /\ WF_vars(CoordLoop)
    /\ WF_vars(CoordAuthDone)
    /\ WF_vars(CoordReceive("ok"))

\* C33: when every action makes finitely many requests and every bulk request
\* is answered well-formed, all actions complete and bulk() returns (or
\* raises what an action raised): it never waits forever.
C33_BulkTerminates == <>(coord.pc \in {"returned", "raised"})

\* ------------------------------------------------ requests after bulk()
\* self._handle_bulk: bulk() installs its handle_bulk when it is called, and
\* no line of the client sets the attribute back to None.
HandleBulkInstalled == coord.pc # "idle"

\* The branch AsyncClient.request takes (allow_bulk is True by default).
RequestBranch(allow_bulk) ==
    IF HandleBulkInstalled /\ allow_bulk THEN "bulk" ELSE "physical"

\* The caller's own coroutine is one more task, after those of the actions.
Late(k) == k \in DOMAIN tasks /\ k > Len(coord.result)

\* bulk() has returned and the caller awaits client.request(...): in the bulk
\* branch handle_bulk queues the definition, sets counting_event and waits
\* for its event; otherwise the request goes out by itself and is answered.
RequestAfterBulk ==
    /\ coord.pc = "returned"
    /\ Len(tasks) = Len(coord.result)
    /\ LET k   == Len(tasks) + 1
           def == Definition(k, 1, ScriptRequest)
       IN  IF RequestBranch(TRUE) = "bulk"
           THEN /\ tasks' = Append(tasks, [NewTask(<<"req">>) EXCEPT
                                               !.pc = 1, !.phase = "wait",
                                               !.keys = {[key |-> next_key, seq |-> 1]}])
                /\ next_key' = next_key + 1
                /\ request_definitions' = Append(request_definitions, Entry(next_key, def))
                /\ counting_event' = TRUE
                /\ UNCHANGED wire
           ELSE /\ tasks' = Append(tasks, [NewTask(<<"req">>) EXCEPT
                                               !.pc = 2, !.phase = "done",
                                               !.got = {[seq |-> 1, item |-> ServerItem(def)]}])
                /\ wire' = Append(wire, [kind |-> "request", entries |-> <<Entry(next_key, def)>>])
                /\ UNCHANGED <<next_key, request_definitions, counting_event>>
    /\ UNCHANGED <<recVars, fltVars, remote, views, caches, responses, events, coord,
                   authenticated>>

NextAfterBulk ==
    \/ TokenExpires
    \/ \E k \in DOMAIN tasks : TaskWorkDone(k)
    \/ \E k \in DOMAIN tasks, key \in events : TaskResume(k, key)
    \/ CoordLoop
    \/ CoordAuthDone
    \/ CoordReceive("ok")
    \/ RequestAfterBulk

\* bulk() with well-formed answers, and one request of the caller after it.
SpecAfterBulk ==
    /\ InitBulk
    /\ [][NextAfterBulk]_vars
    /\ WF_vars(\E k \in DOMAIN tasks : TaskWorkDone(k))
    /\ WF_vars(\E k \in DOMAIN tasks, key \in events : TaskResume(k, key))
    /\ WF_vars(CoordLoop)
    /\ WF_vars(CoordAuthDone)
    /\ WF_vars(CoordReceive("ok"))

\* C36: a request the caller makes after bulk() has returned goes out as a
\* request of its own, is not queued for the bulk() that is over, and gets
\* its response.
C36_RequestAfterBulkIsSent ==
    /\ [][(coord.pc = "returned" /\ Len(tasks') = Len(tasks) + 1) =>
            /\ Len(wire') = Len(wire) + 1
            /\ wire'[Len(wire')].kind = "request"
            /\ request_definitions' = request_definitions]_vars
    /\ ((\E k \in DOMAIN tasks : Late(k)) ~> (\A k \in DOMAIN tasks : Late(k) => Done(tasks[k])))

\* ------------------------------------------- a refused request in a batch
NextBulkRefused ==
    \/ TokenExpires
    \/ \E k \in DOMAIN tasks : TaskWorkDone(k)
    \/ \E k \in DOMAIN tasks, key \in events : TaskResume(k, key)
    \/ CoordLoop
    \/ CoordAuthDone
    \/ \E shape \in {"ok"} \cup RefusedShapes : CoordReceive(shape)

\* bulk() against a server that refuses some requests of its batches.
SpecBulkRefused == InitBulk /\ [][NextBulkRefused]_vars

\* The requests an action makes when it runs through all its steps.
RequestsOf(prog) ==
    Len(SelectSeq(prog, LAMBDA step : step = "req"))
        + 2 * Len(SelectSeq(prog, LAMBDA step : step = "pair"))

\* The action got a response with a status that is not 2xx.
Refused(task) == \E g \in task.got : g.item.status[1] \notin 200..299

\* C38: when a request of a batch is answered with a status that is not 2xx,
\* the action that made the request raises SugarError and no other action
\* does: when bulk() raises, the actions that failed are exactly those that
\* were refused, each with the refusing status among its responses, and every
\* other action has gone through all its steps with the responses to its own
\* requests; bulk() does not raise while an action is unfinished and does not
\* return when an action has failed.
C38_OnlyRefusedActionFails ==
    /\ \A k \in DOMAIN tasks :
           /\ tasks[k].phase = "failed" <=> Refused(tasks[k])
           /\ \A g \in tasks[k].got : g.item.contents[1].for.task = k
    /\ coord.pc = "returned" => \A k \in DOMAIN tasks : tasks[k].phase = "done"
    /\ coord.pc = "raised" =>
           /\ \E k \in DOMAIN tasks : Refused(tasks[k])
           /\ \A k \in DOMAIN tasks :
                  /\ Done(tasks[k])
                  /\ ~Refused(tasks[k]) =>
                         /\ tasks[k].phase = "done"
                         /\ tasks[k].pc > Len(tasks[k].prog)
                         /\ Cardinality(tasks[k].got) = RequestsOf(tasks[k].prog)
                         /\ \A g \in tasks[k].got : g.item.status[1] = 200

\* bulk() has raised after two rounds: the first action was refused in the
\* first round, the second one went on to a second request and finished.
C38_Witness ==
    /\ coord.pc = "raised"
    /\ Len(tasks) = 2
    /\ tasks[1].phase = "failed"
    /\ tasks[2].phase = "done"
    /\ Cardinality(tasks[2].got) = 2
    /\ Len(BulkCalls) = 2
    /\ \E g \in tasks[1].got : g.item.status = <<NotFoundStatus>>

\* ====================================================== SyncClient.request
\* Here `authenticated` is client.authenticated (self._authentication[0]);
\* whether the token is within ten minutes of its expiry is an input of each
\* request. A call on the wire is kept with what the server answered: its
\* status and whether the body has the layout the client expects.
AuthStatuses == {200, 401}
RequestStatuses == {200, 500}
Endpoints == {"notaroute", "errorroute"}
Answers(statuses) == [status : statuses, layout : BOOLEAN]

SyncCall(kind, what, answer) ==
    [kind |-> kind, entries |-> <<what, answer.status, answer.layout>>]

\* _prepare_authentication: None, or the grant type of the payload.
PrepareAuthenticationPayload(initial_done, expiring) ==
    IF initial_done
    THEN IF expiring THEN Some("refresh_token") ELSE None
    ELSE Some("password")

\* A _finalize_authentication that stores the tokens whatever the status.
FinalizeAuthenticationAnyStatus(answer) ==
    IF ~answer.layout THEN [raised |-> "InvalidSugarResponseError", authenticated |-> authenticated]
    ELSE [raised |-> "none", authenticated |-> TRUE]

\* _finalize_authentication: the status, then the fields of the body, then
\* self._authentication = (True, ...).
FinalizeAuthentication(answer) ==
    IF answer.status \notin 200..299
    THEN [raised |-> "ZuckerException", authenticated |-> authenticated]
    ELSE IF ~answer.layout
    THEN [raised |-> "InvalidSugarResponseError", authenticated |-> authenticated]
    ELSE [raised |-> "none", authenticated |-> TRUE]

\* _finalize_request: the body must be a mapping, then the status decides.
FinalizeRequest(answer) ==
    IF ~answer.layout THEN "InvalidSugarResponseError"
    ELSE IF answer.status \in 200..299 THEN "none"
    ELSE "SugarError"

\* SyncClient.request(method, endpoint)
SyncRequest(endpoint, expiring, auth_answer, answer) ==
    /\ outcome.n < MaxOps
    /\ LET payload == PrepareAuthenticationPayload(authenticated, expiring)
           fin     == FinalizeAuthentication(auth_answer)
           sent    == IF payload = None THEN wire
                      ELSE Append(wire, SyncCall("auth", payload[1], auth_answer))
       IN  IF payload # None /\ fin.raised # "none"
           THEN /\ wire' = sent
                /\ authenticated' = fin.authenticated
                /\ outcome' = Raised("authentication", fin.raised)
           ELSE /\ wire' = Append(sent, SyncCall("request", endpoint, answer))
                /\ authenticated' = IF payload = None THEN authenticated
                                    ELSE fin.authenticated
                /\ outcome' = Raised("request", FinalizeRequest(answer))
    /\ UNCHANGED <<remote, views, caches, fltVars>>
    /\ UNCHANGED <<tasks, next_key, request_definitions, responses, events,
                   counting_event, coord>>
    /\ UNCHANGED <<rec, server, calls, assigned>>

\* RequestsClient(base_url, username, password): no request was made yet.
InitSyncClient ==
    /\ remote = <<>>
    /\ views = (<<>> :> NewView(1))
    /\ caches = << <<>> >>
    /\ tasks = <<>>
    /\ next_key = 0
    /\ request_definitions = <<>>
    /\ responses = {}
    /\ events = {}
    /\ counting_event = FALSE
    /\ coord = [pc |-> "idle", keys |-> <<>>, result |-> <<>>]
    /\ wire = <<>>
    /\ authenticated = FALSE
    /\ NoRecord
    /\ NoFilters

NextSyncClient ==
    \E endpoint \in Endpoints, expiring \in BOOLEAN,
       auth_answer \in Answers(AuthStatuses), answer \in Answers(RequestStatuses) :
        SyncRequest(endpoint, expiring, auth_answer, answer)

SpecSyncClient == InitSyncClient /\ [][NextSyncClient]_vars

\* The calls a step puts on the wire.
NewCalls == SubSeq(wire', Len(wire) + 1, Len(wire'))

====
